---- MODULE Spec2Model ----
(***************************************************************************)
(* SAN-boot block-device stack of iPXE: the INT 13 emulation and its       *)
(* command pump (int13.c), the SCSI command layer (scsi.c) and the SRP     *)
(* session (srp.c), as one state machine.                                  *)
(*                                                                         *)
(* The program is single-threaded and cooperative.  A handler runs to      *)
(* completion; asynchronous work (timer expiry, socket receive, socket     *)
(* close) happens only inside step(), which the pump calls in its two wait *)
(* loops, and in the main loop while no firmware call is running.  Each    *)
(* action below is therefore one handler, or the run of the pump's code    *)
(* from one step() to the next.                                            *)
(*                                                                         *)
(* Object interfaces: a plugged pair of interfaces is modelled as one      *)
(* link.  intf_shutdown()/intf_restart() nullify the interface before      *)
(* telling the peer, and every close handler of this code shuts its own    *)
(* side down, so the link is removed first and the peer's close handler    *)
(* is then run: a call back through the removed link finds no handler.     *)
(***************************************************************************)
EXTENDS Integers, Sequences, FiniteSets, TLC

(***************************************************************************)
(* Error numbers (the code returns them negated).                          *)
(***************************************************************************)
EINPROGRESS == 1
ETIMEDOUT == 2
EIO == 3
EBUSY == 4
ENOENT == 5
EINVAL == 6
ENOTSUP == 7
EPERM == 8
ENOTCONN == 9
ECONNRESET == 10
EADDRINUSE == 11
ENOMEM == 12
EOPNOTSUPP == 13
EPIPE == 14

(***************************************************************************)
(* Program constants.                                                      *)
(***************************************************************************)
\* SCSICMD_MAX_RETRIES
SCSICMD_MAX_RETRIES == 10
\* INT13_COMMAND_TIMEOUT, in seconds: the model's clock ticks once a second
INT13_COMMAND_TIMEOUT == 15
\* number of values of the uint16_t tag_idx, and of probes of srp_new_tag()
TagSpace == 65536
\* INT 13 status codes
INT13_STATUS_INVALID == 1
INT13_STATUS_READ_ERROR == 4
INT13_STATUS_RESET_FAILED == 5
\* INT13_BLKSIZE
INT13_BLKSIZE == 512
\* results of INT 13,15 and INT 13,41, and the BX that INT 13,41 is called with
INT13_DISK_TYPE_HDD == 3
INT13_EXTENSION_VER_1_X == 1
INT13_EXTENSION_MAGIC == 21930

(***************************************************************************)
(* Bounds of the model.                                                    *)
(***************************************************************************)
\* emulated drives that can be allocated
MaxDrives == 1
\* firmware-level operations (register, INT 13 call) in one behaviour
MaxCalls == 2
\* seconds between two looks at the clock
TickSeconds == 8
\* responses with a status other than GOOD the target sends in one
\* behaviour of the firmware-facing specification
MaxBadStatus == 1
\* the same, in the specification of the block device under a direct client
MaxBadStatusBlock == 11
\* operations of the direct client in one behaviour
MaxClientCalls == 3
\* commands the direct client keeps outstanding
MaxClientCmds == 1
\* calls in a run of a client that is followed for its tags, and SCSI
\* commands it has outstanding at a time
MaxTagCalls == 5
MaxTagCmds == 2
\* blocks a drive with a transfer limit moves in one command
RwMaxCount == 2
\* blocks of an extended read or write to such a drive
RwBlocks == 5
\* first block of an extended read or write to such a drive
RwStart == 7
\* calls of a client whose reads and writes are followed for their CDBs,
\* and blocks of one such read or write
MaxCdbCalls == 2
MaxCdbCount == 2
\* resets of the drive in one behaviour
MaxResetCalls == 3
\* registrations in one behaviour in which the geometry is guessed
MaxGeoCalls == 2
\* calls of INT 13,02 and INT 13,03 in one behaviour
MaxChsCalls == 1
\* INT 13 calls to a drive whose block device closes
MaxLatchCalls == 3
\* calls of a client whose command records are followed for their
\* references
MaxRefCalls == 3
\* calls of a client whose two commands are followed for their retries
MaxRetryCalls == 3
\* commands that client keeps outstanding
MaxRetryCmds == 2
\* calls (register, INT 13) of a behaviour in which the firmware calls the
\* functions that return at once, resets and reads
MaxFwCalls == 4
\* drive records the registry is followed with, and calls (register,
\* unregister, INT 13) of a behaviour in which it is
MaxRegDrives == 2
MaxRegCalls == 4

Slots == 1..MaxRegDrives

(***************************************************************************)
(* Machine integers.  A 32-bit or 64-bit unsigned value is a sequence of   *)
(* 16-bit limbs, least significant first (two limbs: unsigned int, size_t, *)
(* unsigned long, uint32_t; four limbs: uint64_t); arithmetic is modulo    *)
(* the width.  Values known to be small (error numbers, tags, block sizes, *)
(* geometry) are plain integers.                                           *)
(***************************************************************************)
Limb == 65536

U32(x) == << x % Limb, x \div Limb >>
U64(x) == << x % Limb, x \div Limb, 0, 0 >>
Ones(n) == [i \in 1..n |-> Limb - 1]
Zext(a, n) == a \o [i \in 1..(n - Len(a)) |-> 0]
Trunc(a, n) == SubSeq(a, 1, n)
IsZero(a) == \A i \in 1..Len(a) : a[i] = 0

\* a + b + c modulo the width of a
RECURSIVE AddW(_, _, _)
AddW(a, b, c) ==
    IF a = << >> THEN << >>
    ELSE LET sum == Head(a) + Head(b) + c
         IN << sum % Limb >> \o AddW(Tail(a), Tail(b), sum \div Limb)

\* a - b - c modulo the width of a
RECURSIVE SubW(_, _, _)
SubW(a, b, c) ==
    IF a = << >> THEN << >>
    ELSE LET dif == Head(a) - Head(b) - c
         IN << dif % Limb >> \o SubW(Tail(a), Tail(b), IF dif < 0 THEN 1 ELSE 0)

\* a * k + c modulo the width of a, for a plain integer k below 2^15
RECURSIVE MulW(_, _, _)
MulW(a, k, c) ==
    IF a = << >> THEN << >>
    ELSE LET prod == Head(a) * k + c
         IN << prod % Limb >> \o MulW(Tail(a), k, prod \div Limb)

\* a < b, for values of the same width
RECURSIVE LessW(_, _)
LessW(a, b) ==
    IF a = << >> THEN FALSE
    ELSE LET n == Len(a)
         IN IF a[n] # b[n] THEN a[n] < b[n]
            ELSE LessW(SubSeq(a, 1, n - 1), SubSeq(b, 1, n - 1))

\* SCSI_MAX_BLOCK_10, 0xffffffffULL
SCSI_MAX_BLOCK_10 == Zext(Ones(2), 4)
\* capacity.max_count = -1U
MaxCountUnbounded == Ones(2)
\* ~( ( size_t ) 0 )
WindowUnbounded == Ones(2)

(***************************************************************************)
(* Sequence helpers.                                                       *)
(***************************************************************************)
RemoveAt(s, i) == [j \in 1..(Len(s) - 1) |-> IF j < i THEN s[j] ELSE s[j + 1]]

\* the first of a set of list positions, 0 when there is none
FirstOf(S) == IF S = {} THEN 0 ELSE CHOOSE i \in S : \A j \in S : i <= j

(***************************************************************************)
(* What one handler run shows to the outside: reset at the start of every  *)
(* action, so that a property can speak about "the IU just delivered" or   *)
(* "the command just issued".                                              *)
(***************************************************************************)
NoIU == [type |-> "none"]

OutNone(act) ==
    [ act |-> act,          \* the action that ran
      env |-> "ok",         \* what allocation and transmission did in it
      d |-> 0,              \* the drive / session it ran on
      iu |-> NoIU,          \* the IU delivered
      sent |-> << >>,       \* IUs sent on the socket
      capacity |-> << >>,   \* capacity events delivered to the data interface
      done |-> << >>,       \* SCSI commands closed: [id, rc, retries, attempts]
      closes |-> << >>,     \* srpdev_close() calls: [d, rc]
      notify |-> FALSE,     \* xfer_window_changed() raised upstream
      rc |-> 0,             \* the handler's return value
      status |-> << >>,     \* status stored by int13(), when it dispatched
      hook |-> << >>,       \* value returned by int13_hook()
      remap |-> << >>,      \* drive number int13() rewrote the call to
      outcome |-> << >>,    \* values int13_command_close() stored in command->rc
      run |-> "none",       \* pump run: "started", "ended", "none"
      issue |-> << >>,      \* arguments of the pump's block_read() / block_write()
      vec |-> << >>,        \* calls of int13_hook_vector() / int13_unhook_vector()
      req |-> << >>,        \* the drive number int13_hook() / int13_unhook() /
                            \* int13() is given
      entry |-> << >>,      \* the firmware's drive count as int13() finds it
      regs |-> << >>,       \* AH and the flags CF, OF with which int13() returns
      parts |-> << >>,      \* the partition table int13_guess_geometry() scanned
      chs |-> << >>,        \* the address int13_rw_sectors() took from the
                            \* registers, and the block address it made of it
      last |-> << >>,       \* the drive and function int13() stored a status
                            \* for, and the last_status it replaced
      freed |-> << >> ]     \* SRP commands that srpcmd_close() went on using
                            \* after their last reference was dropped: [d, tag, rc]

(***************************************************************************)
(* SRP: tags.                                                              *)
(***************************************************************************)
\* srp_find_tag(): index of the command with this tag, 0 for NULL
SrpFindTag(commands, tag) ==
    FirstOf({i \in 1..Len(commands) : commands[i].tag = tag})

RECURSIVE SrpProbe(_, _, _)
SrpProbe(commands, idx, i) ==
    IF i = TagSpace
    THEN [idx |-> idx, tag |-> -EADDRINUSE]
    ELSE LET n == (idx + 1) % TagSpace
         IN IF SrpFindTag(commands, n) = 0
            THEN [idx |-> n, tag |-> n]
            ELSE SrpProbe(commands, n, i + 1)

\* variant: srp_new_tag() without the search of the command list
SrpNewTagBlind(commands, idx) ==
    [idx |-> (idx + 1) % TagSpace, tag |-> (idx + 1) % TagSpace]

\* srp_new_tag(): the static counter after the call, and the tag or error
SrpNewTag(commands, idx) == SrpProbe(commands, idx, 0)

\* variant: srpdev_window() without the login state
SrpdevWindowOpen(srpdev) == WindowUnbounded

\* srpdev_window()
SrpdevWindow(srpdev) == IF srpdev.logged_in THEN WindowUnbounded ELSE U32(0)

(***************************************************************************)
(* SCSI: command descriptor blocks.                                        *)
(***************************************************************************)
\* scsicmd_read_cmd() / scsicmd_write_cmd(): the (16) form above
\* SCSI_MAX_BLOCK_10, else the (10) form with its 32-bit and 16-bit fields
ScsicmdRwCdb(name, lba, count) ==
    IF LessW(SCSI_MAX_BLOCK_10, AddW(lba, Zext(count, 4), 0))
    THEN [op |-> name, form |-> 16, lba |-> lba, len |-> count]
    ELSE [op |-> name, form |-> 10, lba |-> Trunc(lba, 2), len |-> Trunc(count, 1)]

\* scsicmd_read_capacity_cmd()
ScsicmdReadCapacityCdb(use16) ==
    IF use16
    THEN [op |-> "READ_CAPACITY", form |-> 16, lba |-> << >>, len |-> U32(32)]
    ELSE [op |-> "READ_CAPACITY", form |-> 10, lba |-> << >>, len |-> << >>]

\* scsicmd->type->cmd()
ScsicmdCdb(scsicmd) ==
    CASE scsicmd.type = "READ" -> ScsicmdRwCdb("READ", scsicmd.lba, scsicmd.count)
      [] scsicmd.type = "WRITE" -> ScsicmdRwCdb("WRITE", scsicmd.lba, scsicmd.count)
      [] OTHER -> ScsicmdReadCapacityCdb(scsicmd.use16)

(***************************************************************************)
(* State.                                                                  *)
(***************************************************************************)
VARIABLES
    int13s,      \* list of registered drives (slots), head first
    drv,         \* struct int13_drive of each slot
    num_drives,  \* the static mirror of the BIOS drive count
    bda,         \* the BIOS drive count byte at 40:75
    vector,      \* TRUE while the INT 13 vector is hooked
    dev,         \* the block device (SRP device and SCSI device) of each slot
    command,     \* the single INT 13 command
    tag_idx,     \* static uint16_t tag_idx of srp_new_tag()
    elapsed,     \* seconds since the command timer was started
    pc,          \* where the firmware-facing code stands
    call,        \* the firmware-facing call in progress
    failed,      \* assertions of the code found false
    out,         \* what the last handler run showed
    ncalls,      \* firmware-level operations started so far
    nbad         \* responses with a status other than GOOD delivered so far

vars == << int13s, drv, num_drives, bda, vector, dev, command, tag_idx,
           elapsed, pc, call, failed, out, ncalls, nbad >>

\* zalloc() of a struct int13_drive
DriveZero ==
    [ used |-> FALSE, drive |-> 0, natural_drive |-> 0, block_rc |-> 0,
      last_status |-> 0,
      capacity |-> [blocks |-> U64(0), blksize |-> 0, max_count |-> U32(0)],
      cylinders |-> 0, heads |-> 0, sectors_per_track |-> 0 ]

\* no block device: nothing plugged
DevNone ==
    [ socket |-> FALSE,     \* srpdev->socket is plugged into the transport
      scsi |-> FALSE,       \* scsidev->scsi is plugged into srpdev->scsi
      block |-> FALSE,      \* a block control interface (int13->block, or
                            \* a direct client's) is plugged into scsidev->block
      client |-> FALSE,     \* that control interface is a direct client's
      logged_in |-> FALSE,  \* srpdev->logged_in
      commands |-> << >>,   \* srpdev->commands, head first
      cmds |-> << >>,       \* scsidev->cmds, head first
      close_rc |-> << >>,   \* reason the session was closed with, once closed
      accepted |-> FALSE ]  \* a LOGIN_RSP has been accepted (history)

\* no firmware-facing call in progress
CallNone ==
    [ kind |-> "none", d |-> 0, func |-> 0, phase |-> "none", type |-> "none",
      lba |-> U64(0), count |-> U32(0), frag |-> U32(0), rc |-> 0,
      parts |-> << >>,
      \* the block range int13_rw() was called with, and its pointer into
      \* the buffer (as the offset from the start of the buffer)
      addr |-> [lba |-> U64(0), count |-> U32(0)], buffer |-> U32(0) ]

NoData == [form |-> 0, lba |-> U64(0), blksize |-> 0, parts |-> << >>]

\* the registers of the caller that int13() reads, besides AH and DL
Ix86None == [bx |-> 0, ch |-> 0, cl |-> 0, dh |-> 0, al |-> 0]

World(act, env) ==
    [ int13s |-> int13s, drv |-> drv, num_drives |-> num_drives, bda |-> bda,
      vector |-> vector, dev |-> dev, command |-> command, tag_idx |-> tag_idx,
      elapsed |-> elapsed, pc |-> pc, call |-> call, failed |-> failed,
      env |-> env, out |-> [OutNone(act) EXCEPT !.env = env], ret |-> 0,
      stack |-> << >>, ix86 |-> Ix86None,
      \* what undefined behaviour does in this run.  A write to freed memory
      \* ends the program ("fault": the heap is damaged) or has no effect (any
      \* other value: the block has not been given out again).  A division
      \* by zero gives a quotient of 0 ("zero") or of 2^32 - 1 ("ones"), or
      \* ends the program (any other value: the divide error is not survived).
      ub |-> "intact" ]

\* a SCSI command is freed when the last interface plugged into it is gone
ScsicmdAlive(x) == x.ref \/ x.srp \/ x.block # "none"

Collect(dv) == [d \in Slots |-> [dv[d] EXCEPT !.cmds = SelectSeq(@, ScsicmdAlive)]]

\* the variables become what the handler run has made of them (the world is
\* computed once, as the value v)
Commit(w) ==
    \E v \in {w} :
        /\ int13s' = v.int13s
        /\ drv' = v.drv
        /\ num_drives' = v.num_drives
        /\ bda' = v.bda
        /\ vector' = v.vector
        /\ dev' = Collect(v.dev)
        /\ command' = v.command
        /\ tag_idx' = v.tag_idx
        /\ elapsed' = IF v.command.timer THEN v.elapsed ELSE 0
        /\ pc' = v.pc
        /\ call' = v.call
        /\ failed' = v.failed
        /\ out' = v.out

\* assert ( cond )
Check(w, cond, what) == IF cond THEN w ELSE [w EXCEPT !.failed = @ \cup {what}]

(***************************************************************************)
(* Handlers.  A handler is a function of a "world" record w, which holds   *)
(* the variables and                                                       *)
(*   w.env    what allocation and transmission do in this handler run      *)
(*   w.out    what the run shows to the outside                            *)
(*   w.ret    the return value of the function that returned last          *)
(*   w.stack  the calls still to be made, innermost first                  *)
(* A handler that calls other handlers pushes their frames, followed by a  *)
(* frame for the rest of its own body (named with a numeric suffix), and   *)
(* Run executes frames until the stack is empty: the calls are made in the *)
(* order, and to the depth, in which the code makes them.                  *)
(***************************************************************************)
Ret(w, rc) == [w EXCEPT !.ret = rc]

Frame(op, d, c, rc, x) == [op |-> op, d |-> d, c |-> c, rc |-> rc, x |-> x]
Push(w, frames) == [w EXCEPT !.stack = frames \o @]

\* index in scsidev->cmds of the SCSI command with identity c
CmdIdx(w, d, c) == FirstOf({i \in 1..Len(w.dev[d].cmds) : w.dev[d].cmds[i].id = c})
ScsiCmd(w, d, c) == w.dev[d].cmds[CmdIdx(w, d, c)]

\* index in srpdev->commands of the SRP command plugged into SCSI command c
SrpIdxOf(w, d, c) ==
    FirstOf({i \in 1..Len(w.dev[d].commands) : w.dev[d].commands[i].scsi = c})

(***************************************************************************)
(* SRP device.                                                             *)
(***************************************************************************)
\* variant: srp_cmd() without the check of the login state
SrpCmdAnyState(w, d, cdb, tag) ==
    IF w.env = "nomem_iob" THEN Ret(w, -ENOMEM)
    ELSE IF w.env = "send_fail" \/ ~w.dev[d].socket THEN Ret(w, -EPIPE)
    ELSE [w EXCEPT !.out.sent = Append(@, [d |-> d, type |-> "CMD",
                                             tag |-> tag, cdb |-> cdb]),
                   !.ret = 0]

\* srp_cmd(): 0 and the CMD IU on the socket, or the error
SrpCmd(w, d, cdb, tag) ==
    IF ~w.dev[d].logged_in THEN Ret(w, -EBUSY)
    ELSE IF w.env = "nomem_iob" THEN Ret(w, -ENOMEM)
    ELSE IF w.env = "send_fail" \/ ~w.dev[d].socket THEN Ret(w, -EPIPE)
    ELSE [w EXCEPT !.out.sent = Append(@, [d |-> d, type |-> "CMD",
                                             tag |-> tag, cdb |-> cdb]),
                   !.ret = 0]

\* srpdev_scsi_command(), issued by SCSI command `parent`
SrpdevScsiCommand(w, d, parent, cdb) ==
    LET nt == SrpNewTag(w.dev[d].commands, w.tag_idx)
        srpcmd == [tag |-> nt.tag, scsi |-> 0, held |-> FALSE]
        \* list_add ( &srpcmd->list, &srpdev->commands )
        w1 == SrpCmd([w EXCEPT !.tag_idx = nt.idx,
                               !.dev[d].commands = << srpcmd >> \o @],
                     d, cdb, nt.tag)
    IN IF nt.tag < 0 THEN [w EXCEPT !.tag_idx = nt.idx, !.ret = nt.tag]
       ELSE IF w.env = "nomem_cmd" THEN [w EXCEPT !.tag_idx = nt.idx, !.ret = -ENOMEM]
       ELSE IF w1.ret # 0
       THEN \* err_cmd: the list holds the only reference
            Push(w1, << Frame("srpcmd_close", d, nt.tag, w1.ret, 0),
                        Frame("return", d, 0, w1.ret, 0) >>)
       ELSE \* intf_plug_plug ( &srpcmd->scsi, parent )
            [w1 EXCEPT !.dev[d].cmds[CmdIdx(w, d, parent)].srp = TRUE,
                       !.dev[d].commands[1].scsi = parent,
                       !.ret = nt.tag]

\* srpcmd_close() of the listed command with this tag
\* srpcmd_close(), entered with `held` references of its caller: the
\* reference of the list is dropped with list_del(); when neither the caller
\* nor a plugged interface holds another, srpcmd_free() runs there and
\* intf_shutdown ( &srpcmd->scsi, rc ) works on freed memory
SrpcmdClose(w, d, tag, rc, held) ==
    LET i == SrpFindTag(w.dev[d].commands, tag)
        c == w.dev[d].commands[i].scsi
        unlisted == [w EXCEPT !.dev[d].commands = RemoveAt(@, i)]
    IN IF i = 0 THEN w
       ELSE IF c = 0
       THEN IF held > 0 THEN unlisted
            ELSE IF w.ub = "fault"
            THEN [unlisted EXCEPT !.out.freed = Append(@, [d |-> d, tag |-> tag,
                                                           rc |-> rc]),
                                  !.stack = << >>, !.pc = "fault"]
            ELSE [unlisted EXCEPT !.out.freed = Append(@, [d |-> d, tag |-> tag,
                                                           rc |-> rc])]
       ELSE \* intf_shutdown ( &srpcmd->scsi, rc ) reaches scsicmd_done()
            Push([w EXCEPT !.dev[d].commands = RemoveAt(@, i),
                           !.dev[d].cmds[CmdIdx(w, d, c)].srp = FALSE],
                 << Frame("scsicmd_done", d, c, rc, 0) >>)

\* srpdev_close(): the interfaces
SrpdevClose(w, d, rc) ==
    LET \* intf_shutdown ( &srpdev->socket, rc )
        w1 == [w EXCEPT !.dev[d].socket = FALSE,
                        !.dev[d].close_rc = IF w.dev[d].socket THEN << rc >> ELSE @,
                        !.dev[d].scsi = FALSE,
                        !.out.closes = Append(@, [d |-> d, rc |-> rc])]
    IN \* intf_shutdown ( &srpdev->scsi, rc ) reaches scsidev_close()
       IF w.dev[d].scsi
       THEN Push(w1, << Frame("scsidev_close", d, 0, rc, 0),
                        Frame("srpdev_close_1", d, 0, rc, 0) >>)
       ELSE Push(w1, << Frame("srpdev_close_1", d, 0, rc, 0) >>)

\* srpdev_close(): the loop over the commands still listed
SrpdevClose1(w, d, rc) ==
    \* srpcmd_get ( srpcmd ); srpcmd_close ( srpcmd, rc ); srpcmd_put ( srpcmd )
    Push(w, [i \in 1..Len(w.dev[d].commands) |->
                Frame("srpcmd_close", d, w.dev[d].commands[i].tag, rc, 1)])

\* srp_login()
SrpLogin(w, d, tag) ==
    IF w.env = "nomem_iob" THEN Ret(w, -ENOMEM)
    ELSE IF w.env = "send_fail" THEN Ret(w, -EPIPE)
    ELSE [w EXCEPT !.out.sent = Append(@, [d |-> d, type |-> "LOGIN_REQ",
                                             tag |-> tag, cdb |-> << >>]),
                   !.ret = 0]

\* scsi_open(): the SCSI device between the block interface and srpdev->scsi
ScsiOpen(w, d) ==
    IF w.env = "nomem_scsi" THEN Ret(w, -ENOMEM)
    ELSE [w EXCEPT !.dev[d].scsi = TRUE, !.dev[d].block = TRUE, !.ret = 0]

\* srp_open(): a new SRP device on a new socket, for the int13 drive or for
\* a direct client
SrpOpen(w, d, client) ==
    LET nt == SrpNewTag(<< >>, w.tag_idx)
        w1 == SrpLogin([w EXCEPT !.dev[d] = [DevNone EXCEPT !.socket = TRUE,
                                                            !.client = client],
                                 !.tag_idx = nt.idx],
                       d, nt.tag)
        w2 == IF w1.ret # 0 THEN w1 ELSE ScsiOpen(w1, d)
    IN IF w.env = "nomem_dev" THEN Ret(w, -ENOMEM)
       ELSE IF w2.ret # 0
       THEN Push(w2, << Frame("srpdev_close", d, 0, w2.ret, 0),
                        Frame("return", d, 0, w2.ret, 0) >>)
       ELSE w2

\* srp_login_rsp()
SrpLoginRsp(w, d, iu) ==
    IF iu.len # "full" THEN Ret(w, -EINVAL)
    ELSE [w EXCEPT !.dev[d].logged_in = TRUE,
                   !.dev[d].accepted = TRUE,
                   !.out.notify = TRUE,
                   !.ret = 0]

\* variant: srp_login_rej() reports nothing
SrpLoginRejIgnored(w, d, iu) == Ret(w, 0)

\* srp_login_rej()
SrpLoginRej(w, d, iu) ==
    IF iu.len # "full" THEN Ret(w, -EINVAL) ELSE Ret(w, -EPERM)

\* srp_rsp(): srpcmd_close ( srpcmd, 0 ) of the command srp_rsp() holds.
\* When the command has left the list already (scsicmd_done() has restarted
\* the interface), the list is empty and the interface shut down: nothing
\* happens, whichever command has that tag by now.
SrpRspClose(w, d, tag) ==
    IF \E i \in 1..Len(w.dev[d].commands) :
           w.dev[d].commands[i].tag = tag /\ w.dev[d].commands[i].held
    THEN Push(w, << Frame("srpcmd_close", d, tag, 0, 1) >>)
    ELSE w

\* srp_rsp(): up to the report of the response to the SCSI command
SrpRsp(w, d, iu) ==
    LET i == SrpFindTag(w.dev[d].commands, iu.tag)
        c == w.dev[d].commands[i].scsi
    IN IF iu.len # "full" THEN Ret(w, -EINVAL)
       ELSE IF i = 0 THEN Ret(w, -ENOENT)
       ELSE \* srpcmd_get ( srpcmd ); scsi_response ( &srpcmd->scsi, &response );
            \* srpcmd_close ( srpcmd, 0 )
            Push([w EXCEPT !.dev[d].commands[i].held = TRUE],
                 (IF c # 0 THEN << Frame("scsicmd_response", d, c, iu.status, 0) >>
                  ELSE << >>)
                 \o << Frame("srp_rsp_close", d, iu.tag, 0, 0),
                       Frame("return", d, 0, 0, 0) >>)

\* variant: srp_unrecognised() reports nothing
SrpUnrecognisedIgnored(w, d, iu) == Ret(w, 0)

\* srp_unrecognised()
SrpUnrecognised(w, d, iu) == Ret(w, -ENOTSUP)

\* srpdev_deliver(): the handler of the IU's type
SrpdevDeliver(w, d, iu) ==
    LET w0 == Push([w EXCEPT !.out.iu = iu, !.out.d = d],
                   << Frame("srpdev_deliver_1", d, 0, 0, 0) >>)
    IN IF iu.len = "short" THEN Ret(w0, -EINVAL)
       ELSE CASE iu.type = "LOGIN_RSP" -> SrpLoginRsp(w0, d, iu)
              [] iu.type = "LOGIN_REJ" -> SrpLoginRej(w0, d, iu)
              [] iu.type = "RSP" -> SrpRsp(w0, d, iu)
              [] OTHER -> SrpUnrecognised(w0, d, iu)

\* variant: srpdev_deliver() leaves the session open on -ENOENT
SrpdevDeliver1Lenient(w, d) ==
    IF w.ret # 0 /\ w.ret # -ENOENT
    THEN Push([w EXCEPT !.out.rc = w.ret],
              << Frame("srpdev_close", d, 0, w.ret, 0) >>)
    ELSE [w EXCEPT !.out.rc = w.ret]

\* srpdev_deliver(): after the handler has returned
SrpdevDeliver1(w, d) ==
    IF w.ret # 0
    THEN Push([w EXCEPT !.out.rc = w.ret],
              << Frame("srpdev_close", d, 0, w.ret, 0) >>)
    ELSE [w EXCEPT !.out.rc = 0]

(***************************************************************************)
(* SCSI command.                                                           *)
(***************************************************************************)
\* scsicmd_command(): construct and issue
ScsicmdCommand(w, d, c) ==
    \* scsi_command ( &scsidev->scsi, &scsicmd->scsi, &command )
    IF w.dev[d].scsi
    THEN Push(w, << Frame("srpdev_scsi_command", d, c, 0, ScsicmdCdb(ScsiCmd(w, d, c))),
                    Frame("scsicmd_command_1", d, c, 0, 0) >>)
    ELSE Push(Ret(w, -EOPNOTSUPP), << Frame("scsicmd_command_1", d, c, 0, 0) >>)

\* scsicmd_command(): record the tag
ScsicmdCommand1(w, d, c) ==
    IF w.ret < 0 THEN w
    ELSE [w EXCEPT !.dev[d].cmds[CmdIdx(w, d, c)].tag = w.ret,
                   !.dev[d].cmds[CmdIdx(w, d, c)].attempts = @ + 1,
                   !.ret = 0]

\* block_capacity ( &scsicmd->block, &capacity ): int13_command_capacity()
\* when the data interface is the INT 13 command's
BlockCapacity(w, d, c, capacity) ==
    LET owner == ScsiCmd(w, d, c).block
    IN IF owner = "none" THEN w
       ELSE [w EXCEPT !.out.capacity =
                          Append(@, [d |-> d, id |-> c, capacity |-> capacity]),
                      !.drv = IF owner = "pump"
                              THEN [@ EXCEPT ![w.command.int13].capacity = capacity]
                              ELSE @]

\* variant: scsicmd_read_capacity_done() without the (16) form
ScsicmdReadCapacityDone10(w, d, c, rc) ==
    LET buf == ScsiCmd(w, d, c).capbuf
        blocks10 == AddW(Trunc(buf.lba, 2), U32(1), 0)
    IN IF rc # 0 THEN Push(w, << Frame("scsicmd_close", d, c, rc, 0) >>)
       ELSE Push(BlockCapacity(w, d, c, [blocks |-> Zext(blocks10, 4),
                                         blksize |-> buf.blksize,
                                         max_count |-> MaxCountUnbounded]),
                 << Frame("scsicmd_close", d, c, 0, 0) >>)

\* variant: the change to READ CAPACITY (16) starts the retries afresh
ScsicmdReadCapacityDoneAfresh(w, d, c, rc) ==
    LET buf == ScsiCmd(w, d, c).capbuf
        blocks10 == AddW(Trunc(buf.lba, 2), U32(1), 0)
        blocks == IF ScsiCmd(w, d, c).use16 THEN AddW(buf.lba, U64(1), 0)
                  ELSE Zext(blocks10, 4)
    IN IF rc # 0 THEN Push(w, << Frame("scsicmd_close", d, c, rc, 0) >>)
       ELSE IF ~ScsiCmd(w, d, c).use16 /\ IsZero(blocks10)
       THEN Push([w EXCEPT !.dev[d].cmds[CmdIdx(w, d, c)].use16 = TRUE,
                           !.dev[d].cmds[CmdIdx(w, d, c)].retries = 0],
                 << Frame("scsicmd_command", d, c, 0, 0),
                    Frame("scsicmd_read_capacity_done_1", d, c, 0, 0) >>)
       ELSE Push(BlockCapacity(w, d, c, [blocks |-> blocks,
                                         blksize |-> buf.blksize,
                                         max_count |-> MaxCountUnbounded]),
                 << Frame("scsicmd_close", d, c, 0, 0) >>)

\* scsicmd_read_capacity_done()
ScsicmdReadCapacityDone(w, d, c, rc) ==
    LET buf == ScsiCmd(w, d, c).capbuf
        blocks10 == AddW(Trunc(buf.lba, 2), U32(1), 0)
        blocks == IF ScsiCmd(w, d, c).use16 THEN AddW(buf.lba, U64(1), 0)
                  ELSE Zext(blocks10, 4)
    IN IF rc # 0 THEN Push(w, << Frame("scsicmd_close", d, c, rc, 0) >>)
       ELSE IF ~ScsiCmd(w, d, c).use16 /\ IsZero(blocks10)
       THEN Push([w EXCEPT !.dev[d].cmds[CmdIdx(w, d, c)].use16 = TRUE],
                 << Frame("scsicmd_command", d, c, 0, 0),
                    Frame("scsicmd_read_capacity_done_1", d, c, 0, 0) >>)
       ELSE Push(BlockCapacity(w, d, c, [blocks |-> blocks,
                                         blksize |-> buf.blksize,
                                         max_count |-> MaxCountUnbounded]),
                 << Frame("scsicmd_close", d, c, 0, 0) >>)

\* scsicmd_read_capacity_done(): after the (16) form has been issued
ScsicmdReadCapacityDone1(w, d, c) ==
    IF w.ret # 0 THEN Push(w, << Frame("scsicmd_close", d, c, w.ret, 0) >>) ELSE w

\* scsicmd->type->done
ScsicmdTypeDone(w, d, c, rc) ==
    IF ScsiCmd(w, d, c).type = "READ_CAPACITY"
    THEN Frame("scsicmd_read_capacity_done", d, c, rc, 0)
    ELSE Frame("scsicmd_close", d, c, rc, 0)

\* variant: scsicmd_done() unplugs the SCSI interface without closing it
ScsicmdDoneUnplug(w, d, c, rc) ==
    LET i == SrpIdxOf(w, d, c)
    IN IF ScsiCmd(w, d, c).srp /\ i # 0
       THEN Push([w EXCEPT !.dev[d].cmds[CmdIdx(w, d, c)].srp = FALSE,
                           !.dev[d].commands[i].scsi = 0],
                 << Frame("scsicmd_done_1", d, c, rc, 0) >>)
       ELSE Push(w, << Frame("scsicmd_done_1", d, c, rc, 0) >>)

\* scsicmd_done(): restart the SCSI interface
ScsicmdDone(w, d, c, rc) ==
    LET i == SrpIdxOf(w, d, c)
    IN IF ScsiCmd(w, d, c).srp /\ i # 0
       THEN Push([w EXCEPT !.dev[d].cmds[CmdIdx(w, d, c)].srp = FALSE,
                           !.dev[d].commands[i].scsi = 0],
                 << Frame("srpcmd_close", d, w.dev[d].commands[i].tag, rc, 1),
                    Frame("scsicmd_done_1", d, c, rc, 0) >>)
       ELSE Push(w, << Frame("scsicmd_done_1", d, c, rc, 0) >>)

\* variant: scsicmd_done() with one retry fewer
ScsicmdDone1Fewer(w, d, c, rc) ==
    IF rc = 0 THEN Push(w, << ScsicmdTypeDone(w, d, c, 0) >>)
    ELSE IF ScsiCmd(w, d, c).retries + 1 < SCSICMD_MAX_RETRIES
    THEN Push([w EXCEPT !.dev[d].cmds[CmdIdx(w, d, c)].retries = @ + 1],
              << Frame("scsicmd_command", d, c, 0, 0),
                 Frame("scsicmd_done_2", d, c, 0, 0) >>)
    ELSE Push([w EXCEPT !.dev[d].cmds[CmdIdx(w, d, c)].retries = @ + 1],
              << ScsicmdTypeDone(w, d, c, rc) >>)

\* variant: scsicmd_done() with one retry counter for the whole device
ScsicmdDone1Shared(w, d, c, rc) ==
    LET counted == [w EXCEPT !.dev[d].cmds =
                       [i \in 1..Len(@) |-> [@[i] EXCEPT !.retries = @ + 1]]]
    IN IF rc = 0 THEN Push(w, << ScsicmdTypeDone(w, d, c, 0) >>)
       ELSE IF ScsiCmd(w, d, c).retries < SCSICMD_MAX_RETRIES
       THEN Push(counted, << Frame("scsicmd_command", d, c, 0, 0),
                             Frame("scsicmd_done_2", d, c, 0, 0) >>)
       ELSE Push(counted, << ScsicmdTypeDone(w, d, c, rc) >>)

\* scsicmd_done(): ( rc != 0 ) && ( scsicmd->retries++ < SCSICMD_MAX_RETRIES )
ScsicmdDone1(w, d, c, rc) ==
    IF rc = 0 THEN Push(w, << ScsicmdTypeDone(w, d, c, 0) >>)
    ELSE IF ScsiCmd(w, d, c).retries < SCSICMD_MAX_RETRIES
    THEN Push([w EXCEPT !.dev[d].cmds[CmdIdx(w, d, c)].retries = @ + 1],
              << Frame("scsicmd_command", d, c, 0, 0),
                 Frame("scsicmd_done_2", d, c, 0, 0) >>)
    ELSE Push([w EXCEPT !.dev[d].cmds[CmdIdx(w, d, c)].retries = @ + 1],
              << ScsicmdTypeDone(w, d, c, rc) >>)

\* scsicmd_done(): after the command has been reissued
ScsicmdDone2(w, d, c) ==
    IF w.ret = 0 THEN w ELSE Push(w, << ScsicmdTypeDone(w, d, c, w.ret) >>)

\* scsicmd_response()
ScsicmdResponse(w, d, c, status) ==
    IF status = 0
    THEN Push(w, << Frame("scsicmd_done", d, c, 0, 0) >>)
    ELSE Push(w, << Frame("scsicmd_done", d, c, -EIO, 0) >>)

\* scsicmd_close(): shut down the SCSI interface
ScsicmdClose(w, d, c, rc) ==
    LET scsicmd == ScsiCmd(w, d, c)
        i == SrpIdxOf(w, d, c)
        w1 == [w EXCEPT !.out.done =
                  Append(@, [d |-> d, id |-> c, rc |-> rc, owner |-> scsicmd.block,
                             type |-> scsicmd.type, use16 |-> scsicmd.use16,
                             retries |-> scsicmd.retries,
                             attempts |-> scsicmd.attempts])]
    IN IF scsicmd.srp /\ i # 0
       THEN Push([w1 EXCEPT !.dev[d].cmds[CmdIdx(w, d, c)].srp = FALSE,
                            !.dev[d].commands[i].scsi = 0],
                 << Frame("srpcmd_close", d, w.dev[d].commands[i].tag, rc, 1),
                    Frame("scsicmd_close_1", d, c, rc, 0) >>)
       ELSE Push(w1, << Frame("scsicmd_close_1", d, c, rc, 0) >>)

\* scsicmd_close(): shut down the block data interface
ScsicmdClose1(w, d, c, rc) ==
    IF ScsiCmd(w, d, c).block = "pump"
    THEN Push([w EXCEPT !.dev[d].cmds[CmdIdx(w, d, c)].block = "none",
                        !.command.cmd = 0],
              << Frame("int13_command_close", d, 0, rc, 0) >>)
    ELSE [w EXCEPT !.dev[d].cmds[CmdIdx(w, d, c)].block = "none"]

(***************************************************************************)
(* SCSI device.                                                            *)
(***************************************************************************)
\* smallest identity not in use for a new SCSI command
NewCmdId(cmds) ==
    CHOOSE c \in 1..(Len(cmds) + 1) : \A i \in 1..Len(cmds) : cmds[i].id # c

\* scsidev_command(), with `owner` the block data interface it is given
ScsidevCommand(w, d, owner, type, lba, count) ==
    LET c == NewCmdId(w.dev[d].cmds)
        scsicmd == [id |-> c, type |-> type, lba |-> lba, count |-> count,
                    tag |-> 0, retries |-> 0, use16 |-> FALSE,
                    capbuf |-> [lba |-> U64(0), blksize |-> 0],
                    ref |-> TRUE, srp |-> FALSE, block |-> "none", attempts |-> 0]
    IN IF w.env = "nomem_scsicmd" THEN Ret(w, -ENOMEM)
       ELSE \* list_add ( &scsicmd->list, &scsidev->cmds )
            Push([w EXCEPT !.dev[d].cmds = << scsicmd >> \o @],
                 << Frame("scsicmd_command", d, c, 0, 0),
                    Frame("scsidev_command_1", d, c, 0, owner) >>)

\* scsidev_command(): after the command has been issued
ScsidevCommand1(w, d, c, owner) ==
    IF w.ret # 0
    THEN Push([w EXCEPT !.dev[d].cmds[CmdIdx(w, d, c)].ref = FALSE],
              << Frame("scsicmd_close", d, c, w.ret, 0),
                 Frame("return", d, 0, w.ret, 0) >>)
    ELSE \* intf_plug_plug ( &scsicmd->block, block ); ref_put()
         [w EXCEPT !.dev[d].cmds[CmdIdx(w, d, c)].block = owner,
                   !.dev[d].cmds[CmdIdx(w, d, c)].ref = FALSE,
                   !.command.cmd = IF owner = "pump" THEN c ELSE @,
                   !.ret = 0]

\* scsidev_close(): shut down the block control interface
ScsidevClose(w, d, rc) ==
    IF w.dev[d].block /\ ~w.dev[d].client
    THEN Push([w EXCEPT !.dev[d].block = FALSE],
              << Frame("int13_block_close", d, 0, rc, 0),
                 Frame("scsidev_close_1", d, 0, rc, 0) >>)
    ELSE Push([w EXCEPT !.dev[d].block = FALSE],
              << Frame("scsidev_close_1", d, 0, rc, 0) >>)

\* scsidev_close(): shut down the SCSI interface
ScsidevClose1(w, d, rc) ==
    IF w.dev[d].scsi
    THEN Push([w EXCEPT !.dev[d].scsi = FALSE],
              << Frame("srpdev_close", d, 0, rc, 0),
                 Frame("scsidev_close_2", d, 0, rc, 0) >>)
    ELSE Push(w, << Frame("scsidev_close_2", d, 0, rc, 0) >>)

\* scsidev_close(): the loop over the commands still listed
ScsidevClose2(w, d, rc) ==
    Push(w, [i \in 1..Len(w.dev[d].cmds) |->
                Frame("scsicmd_close_listed", d, w.dev[d].cmds[i].id, rc, 0)])

\* one turn of that loop: a command freed meanwhile has left the list
ScsicmdCloseListed(w, d, c, rc) ==
    IF ScsicmdAlive(ScsiCmd(w, d, c))
    THEN Push(w, << Frame("scsicmd_close", d, c, rc, 0) >>)
    ELSE w

(***************************************************************************)
(* INT 13 command and drive: the close handlers.                           *)
(***************************************************************************)
\* variant: int13_command_close() leaves the block data interface plugged
Int13CommandClosePlugged(w, rc) ==
    Push(w, << Frame("int13_command_close_1", 0, 0, rc, 0) >>)

\* int13_command_close(): intf_restart ( &command->block, rc )
Int13CommandClose(w, rc) ==
    LET c == w.command.cmd
        d == w.command.int13
    IN IF c # 0
       THEN Push([w EXCEPT !.command.cmd = 0,
                           !.dev[d].cmds[CmdIdx(w, d, c)].block = "none"],
                 << Frame("scsicmd_close", d, c, rc, 0),
                    Frame("int13_command_close_1", 0, 0, rc, 0) >>)
       ELSE Push(w, << Frame("int13_command_close_1", 0, 0, rc, 0) >>)

\* variant: int13_command_close() leaves the timer running
Int13CommandClose1Armed(w, rc) ==
    [w EXCEPT !.command.rc = rc, !.out.outcome = Append(@, rc)]

\* int13_command_close(): stop_timer ( &command->timer ); command->rc = rc
Int13CommandClose1(w, rc) ==
    [w EXCEPT !.command.timer = FALSE, !.command.rc = rc,
              !.out.outcome = Append(@, rc)]

\* variant: the expiry of the timer is lost
Int13CommandExpiredLost(w) == w

\* variant: the expiry of the timer closes the command with another error
Int13CommandExpiredIO(w) ==
    Push(w, << Frame("int13_command_close", 0, 0, -EIO, 0) >>)

\* int13_command_expired()
Int13CommandExpired(w) ==
    Push(w, << Frame("int13_command_close", 0, 0, -ETIMEDOUT, 0) >>)

\* variant: int13_block_close() makes its reason the outcome of the command
Int13BlockCloseOutcome(w, d, rc) ==
    LET rc2 == IF rc = 0 THEN -ENOTCONN ELSE rc
    IN IF w.dev[d].block
       THEN Push([w EXCEPT !.drv[d].block_rc = rc2, !.dev[d].block = FALSE,
                           !.command.rc = rc2],
                 << Frame("scsidev_close", d, 0, rc2, 0) >>)
       ELSE [w EXCEPT !.drv[d].block_rc = rc2, !.command.rc = rc2]

\* variant: int13_block_close() records the reason as it comes
Int13BlockCloseAsIs(w, d, rc) ==
    IF w.dev[d].block
    THEN Push([w EXCEPT !.drv[d].block_rc = rc, !.dev[d].block = FALSE],
              << Frame("scsidev_close", d, 0, rc, 0) >>)
    ELSE [w EXCEPT !.drv[d].block_rc = rc]

\* int13_block_close()
Int13BlockClose(w, d, rc) ==
    LET rc2 == IF rc = 0 THEN -ENOTCONN ELSE rc
    IN \* intf_restart ( &int13->block, rc )
       IF w.dev[d].block
       THEN Push([w EXCEPT !.drv[d].block_rc = rc2, !.dev[d].block = FALSE],
                 << Frame("scsidev_close", d, 0, rc2, 0) >>)
       ELSE [w EXCEPT !.drv[d].block_rc = rc2]

(***************************************************************************)
(* The command pump.                                                       *)
(***************************************************************************)
\* xfer_window ( &int13->block ): passed through the SCSI device to
\* srpdev_window(); an unplugged interface has an unlimited window
Int13Window(w, d) ==
    IF w.dev[d].block /\ w.dev[d].scsi
    THEN SrpdevWindow(w.dev[d])
    ELSE WindowUnbounded

\* int13_command_start(), up to its wait loop
Int13CommandStart(w, d) ==
    LET w1 == Check(Check(w, w.command.int13 = 0, "command->int13 == NULL"),
                    ~w.command.timer, "start: ! timer_running")
    IN [w1 EXCEPT !.command.rc = -EINPROGRESS,
                  !.command.int13 = d,
                  !.command.timer = TRUE,
                  !.elapsed = 0,
                  !.out.run = "started",
                  !.pc = "start"]

\* the condition of the wait loop of int13_command_start()
Int13StartWaiting(w) ==
    /\ w.command.rc = -EINPROGRESS
    /\ IsZero(Int13Window(w, w.command.int13))

\* the value int13_command_start() returns when its loop is left
Int13CommandStartRc(w) ==
    IF w.command.rc = -EINPROGRESS
    THEN w.drv[w.command.int13].block_rc
    ELSE w.command.rc

\* variant: int13_command_stop() leaves the command bound to its drive
Int13CommandStopBound(w, rc) ==
    [w EXCEPT !.command.timer = FALSE,
              !.out.run = "ended", !.out.rc = rc,
              !.call.rc = rc, !.pc = "ret"]

\* int13_command_stop(), and the return of the run to its caller
Int13CommandStop(w, rc) ==
    [w EXCEPT !.command.timer = FALSE, !.command.int13 = 0,
              !.out.run = "ended", !.out.rc = rc,
              !.call.rc = rc, !.pc = "ret"]

\* int13_rw(): frag_len = ( int13->capacity.blksize * frag_count )
Int13FragLen(w) == MulW(w.call.frag, w.drv[w.call.d].capacity.blksize, 0)

\* the loop of int13_command_start() is left: the run fails, or calls
\* block_read(), block_write() or block_read_capacity() on int13->block
Int13CommandIssue(w) ==
    LET d == w.command.int13
        rc == Int13CommandStartRc(w)
        w1 == Push(w, << Frame("int13_command_issue_1", d, 0, 0, 0) >>)
    IN IF rc # 0 THEN Int13CommandStop(w, rc)
       ELSE IF w.call.phase = "capacity"
       THEN IF w.dev[d].block
            THEN ScsidevCommand(w1, d, "pump", w.call.type, w.call.lba, w.call.frag)
            ELSE Ret(w1, -EOPNOTSUPP)
       ELSE LET \* block_rw ( &int13->block, &command->block, lba,
                \*            frag_count, buffer, frag_len )
                w2 == [w1 EXCEPT !.out.issue =
                          Append(@, [type |-> w.call.type, lba |-> w.call.lba,
                                     count |-> w.call.frag,
                                     buffer |-> w.call.buffer,
                                     len |-> Int13FragLen(w)])]
            IN IF w.dev[d].block
               THEN ScsidevCommand(w2, d, "pump", w.call.type, w.call.lba,
                                   w.call.frag)
               ELSE Ret(w2, -EOPNOTSUPP)

\* after the command has been issued: the run fails, or enters
\* int13_command_wait()
Int13CommandIssue1(w) ==
    IF w.ret # 0 THEN Int13CommandStop(w, w.ret)
    ELSE [Check(w, w.command.timer, "timer_running") EXCEPT !.pc = "wait"]

\* the loop of int13_command_wait() is left
Int13CommandWaitDone(w) ==
    Int13CommandStop(Check(w, ~w.command.timer, "wait: ! timer_running"),
                     w.command.rc)

(***************************************************************************)
(* INT 13 drive: open, capacity, geometry, read and write.                 *)
(***************************************************************************)
\* intf_shutdown() / intf_restart() of int13->block
Int13BlockShutdown(w, d, rc) ==
    IF w.dev[d].block
    THEN Push([w EXCEPT !.dev[d].block = FALSE],
              << Frame("scsidev_close", d, 0, rc, 0) >>)
    ELSE w

\* int13_set_num_drives()
RECURSIVE Int13CoverDrives(_, _, _)
Int13CoverDrives(w, list, n) ==
    IF list = << >> THEN n
    ELSE LET low == w.drv[Head(list)].drive % 128
         IN Int13CoverDrives(w, Tail(list), IF n <= low THEN low + 1 ELSE n)

Int13SetNumDrives(w) ==
    LET n == Int13CoverDrives(w, w.int13s, w.bda)
    IN [w EXCEPT !.num_drives = n, !.bda = n]

\* variant: int13() does not look at the drive count
Int13CheckNumDrivesNot(w) == w

\* int13_check_num_drives()
Int13CheckNumDrives(w) ==
    IF w.bda # w.num_drives THEN Int13SetNumDrives(w) ELSE w

\* what int13() shows when it stores a status
Int13Stored(w, status) ==
    [w.out EXCEPT !.status = << status >>,
                  !.last = << [d |-> w.call.d, func |-> w.call.func,
                               was |-> w.drv[w.call.d].last_status] >>]

\* variant: int13() returns with the carry flag as the wrapper set it
Int13StatusCarry(w, status) ==
    [w EXCEPT !.drv[w.call.d].last_status = status,
              !.out = [Int13Stored(w, status) EXCEPT
                          !.regs = << [ah |-> (IF status < 0 THEN -status
                                               ELSE status) % 256,
                                       cf |-> TRUE, of |-> TRUE] >>],
              !.call = CallNone, !.pc = "idle"]

\* variant: int13() does not store a success over a failure
Int13StatusSticky(w, status) ==
    [w EXCEPT !.drv[w.call.d].last_status =
                  IF status >= 0 /\ @ < 0 THEN @ ELSE status,
              !.out = [Int13Stored(w, status) EXCEPT
                          !.regs = << [ah |-> (IF status < 0 THEN -status
                                               ELSE status) % 256,
                                       cf |-> status < 0, of |-> TRUE] >>],
              !.call = CallNone, !.pc = "idle"]

\* the end of int13(): store the status for INT 13,01, put its absolute
\* value in AH, clear CF unless it is negative, set OF, and return (the
\* wrapper calls int13() with CF set and OF clear)
Int13Status(w, status) ==
    [w EXCEPT !.drv[w.call.d].last_status = status,
              !.out = [Int13Stored(w, status) EXCEPT
                          !.regs = << [ah |-> (IF status < 0 THEN -status
                                               ELSE status) % 256,
                                       cf |-> status < 0, of |-> TRUE] >>],
              !.call = CallNone, !.pc = "idle"]

\* the error path of int13_hook(): shut the block interface down
Int13HookFail(w, rc) ==
    Int13BlockShutdown(Push(w, << Frame("int13_hook_fail_1", w.call.d, 0, rc, 0) >>),
                       w.call.d, rc)

\* the error path of int13_hook(): free the drive and return
Int13HookFail1(w, d, rc) ==
    [w EXCEPT !.drv[d] = DriveZero, !.dev[d] = DevNone,
              !.out.hook = << rc >>, !.call = CallNone, !.pc = "idle"]

\* the end of int13_hook(): hook the vector, list the drive, update the count
Int13HookRegister(w) ==
    [Int13SetNumDrives([w EXCEPT !.vector = IF w.int13s = << >> THEN TRUE ELSE @,
                                 !.out.vec = IF w.int13s = << >>
                                             THEN Append(@, "hook") ELSE @,
                                 !.int13s = << w.call.d >> \o @])
       EXCEPT !.out.hook = << w.drv[w.call.d].drive >>,
              !.call = CallNone, !.pc = "idle"]

\* variant: the first used entry of the partition table gives the guess
RECURSIVE Int13GuessScanFirst(_, _)
Int13GuessScanFirst(parts, guess) ==
    IF parts = << >> THEN guess
    ELSE IF Head(parts).type = 0 THEN Int13GuessScanFirst(Tail(parts), guess)
    ELSE [heads |-> Head(parts).chs_end[1] + 1,
          sectors_per_track |-> Head(parts).chs_end[2] % 64]

\* the scan of the partition table in int13_guess_geometry()
RECURSIVE Int13GuessScan(_, _)
Int13GuessScan(parts, guess) ==
    IF parts = << >> THEN guess
    ELSE Int13GuessScan(Tail(parts),
             IF Head(parts).type = 0 THEN guess
             ELSE [heads |-> Head(parts).chs_end[1] + 1,
                   sectors_per_track |-> Head(parts).chs_end[2] % 64])

\* int13_guess_geometry(), after the partition table has been read
Int13GuessGeometry(w) ==
    LET d == w.call.d
        int13 == w.drv[d]
        guess == Int13GuessScan(w.call.parts,
                                [heads |-> 255, sectors_per_track |-> 63])
        heads == IF int13.heads = 0 THEN guess.heads ELSE int13.heads
        spt == IF int13.sectors_per_track = 0 THEN guess.sectors_per_track
               ELSE int13.sectors_per_track
        \* unsigned long
        blocks == IF IsZero(SubSeq(int13.capacity.blocks, 3, 4))
                  THEN Trunc(int13.capacity.blocks, 2) ELSE Ones(2)
        blocks_per_cyl == heads * spt
        \* blocks / blocks_per_cyl, limited to 1024
        cyl == IF int13.cylinders # 0 THEN int13.cylinders
               ELSE IF LessW(U32(1024 * blocks_per_cyl), blocks) THEN 1024
               ELSE (blocks[2] * Limb + blocks[1]) \div blocks_per_cyl
        scanned == << w.call.parts >>
    IN IF int13.cylinders = 0 /\ blocks_per_cyl = 0
       THEN \* blocks / 0
            IF w.ub \in {"zero", "ones"}
            THEN Int13HookRegister(
                     [Check(w, FALSE, "blocks_per_cyl != 0")
                        EXCEPT !.out.parts = scanned,
                               !.drv[d].heads = heads,
                               !.drv[d].sectors_per_track = spt,
                               !.drv[d].cylinders = IF w.ub = "zero" THEN 0
                                                    ELSE 1024])
            ELSE [Check(w, FALSE, "blocks_per_cyl != 0")
                    EXCEPT !.drv[d].heads = heads, !.drv[d].sectors_per_track = spt,
                           !.out.parts = scanned,
                           !.pc = "fault"]
       ELSE Int13HookRegister([w EXCEPT !.out.parts = scanned,
                                        !.drv[d].heads = heads,
                                        !.drv[d].sectors_per_track = spt,
                                        !.drv[d].cylinders = cyl])

\* what the caller of int13_rw() does with its result
Int13RwReturn(w, rc) ==
    IF w.call.kind = "hook"
    THEN IF rc # 0 THEN Int13HookFail(w, rc) ELSE Int13GuessGeometry(w)
    ELSE Int13Status(w, IF rc # 0 THEN -INT13_STATUS_READ_ERROR ELSE 0)

\* variant: int13_rw() without the transfer limit
Int13RwWhole(w) ==
    IF IsZero(w.call.count) THEN Int13RwReturn(w, 0)
    ELSE [Int13CommandStart(w, w.call.d) EXCEPT !.call.frag = w.call.count]

\* int13_rw() at the head of its loop
Int13Rw(w) ==
    LET max == w.drv[w.call.d].capacity.max_count
    IN IF IsZero(w.call.count) THEN Int13RwReturn(w, 0)
       ELSE [Int13CommandStart(w, w.call.d)
               EXCEPT !.call.frag = IF LessW(max, w.call.count) THEN max
                                    ELSE w.call.count]

\* what the caller of int13_reopen_block() does with its result
Int13ReopenReturn(w, rc) ==
    IF w.call.kind = "hook"
    THEN IF rc # 0 THEN Int13HookFail(w, rc)
         ELSE IF w.drv[w.call.d].capacity.blksize # INT13_BLKSIZE
         THEN Int13HookRegister(w)
         ELSE Int13Rw([w EXCEPT !.call.phase = "rw", !.call.type = "READ",
                                !.call.lba = U64(0), !.call.count = U32(1),
                                !.call.addr = [lba |-> U64(0), count |-> U32(1)]])
    ELSE Int13Status(w, IF rc # 0 THEN -INT13_STATUS_RESET_FAILED ELSE 0)

\* variant: int13_rw() goes on to the next fragment whatever the run returned
Int13RunReturnAnyway(w) ==
    IF w.call.phase = "capacity" THEN Int13ReopenReturn(w, w.call.rc)
    ELSE Int13Rw([w EXCEPT !.call.lba = AddW(@, Zext(w.call.frag, 4), 0),
                           !.call.count = SubW(@, w.call.frag, 0),
                           !.call.buffer = AddW(@, Int13FragLen(w), 0)])

\* a run of the pump has returned rc to int13_read_capacity() or int13_rw()
Int13RunReturn(w) ==
    IF w.call.phase = "capacity" THEN Int13ReopenReturn(w, w.call.rc)
    ELSE IF w.call.rc # 0 THEN Int13RwReturn(w, w.call.rc)
    ELSE \* move to the next fragment
         Int13Rw([w EXCEPT !.call.lba = AddW(@, Zext(w.call.frag, 4), 0),
                           !.call.count = SubW(@, w.call.frag, 0),
                           !.call.buffer = AddW(@, Int13FragLen(w), 0)])

\* int13_reopen_block(): close any existing block device
Int13ReopenBlock(w, d) ==
    Int13BlockShutdown(Push(w, << Frame("int13_reopen_block_1", d, 0, 0, 0) >>),
                       d, -ECONNRESET)

\* int13_reopen_block(): open the block device
Int13ReopenBlock1(w, d) ==
    SrpOpen(Push(w, << Frame("int13_reopen_block_2", d, 0, 0, 0) >>), d, FALSE)

\* variant: int13_reopen_block() without int13_read_capacity()
Int13ReopenBlock2Only(w, d) ==
    IF w.ret # 0
    THEN Int13ReopenReturn([w EXCEPT !.drv[d].block_rc = w.ret], w.ret)
    ELSE Int13ReopenReturn([w EXCEPT !.drv[d].block_rc = 0], 0)

\* int13_reopen_block(): record the result; int13_read_capacity(), up to
\* the wait loop of int13_command_start()
Int13ReopenBlock2(w, d) ==
    IF w.ret # 0
    THEN Int13ReopenReturn([w EXCEPT !.drv[d].block_rc = w.ret], w.ret)
    ELSE [Int13CommandStart([w EXCEPT !.drv[d].block_rc = 0], d)
            EXCEPT !.call.phase = "capacity", !.call.type = "READ_CAPACITY",
                   !.call.lba = U64(0), !.call.frag = U32(0)]

(***************************************************************************)
(* Firmware-facing entry points.                                           *)
(***************************************************************************)
INT13_USE_NATURAL_DRIVE == 255
INT13_RESET == 0
INT13_GET_LAST_STATUS == 1
INT13_READ_SECTORS == 2
INT13_WRITE_SECTORS == 3
INT13_GET_PARAMETERS == 8
INT13_GET_DISK_TYPE == 21
INT13_EXTENSION_CHECK == 65
INT13_EXTENDED_READ == 66
INT13_EXTENDED_WRITE == 67
\* a function number int13() does not recognise
INT13_UNRECOGNISED == 79

\* x | 0x80, for an unsigned int: bit 7 is set, no other bit is touched
Or80(x) == IF x % 256 >= 128 THEN x ELSE x + 128

\* drive numbers asked of int13_hook(), function numbers, drive numbers and
\* disk address packets given to INT 13
HookDrives == {INT13_USE_NATURAL_DRIVE, 129}
Functions == {INT13_RESET, INT13_GET_LAST_STATUS, INT13_EXTENDED_READ,
              INT13_EXTENDED_WRITE, INT13_UNRECOGNISED}
BiosDrives == {128, 129}
PacketLbas == {U64(0)}
PacketCounts == {U32(0), U32(1)}

FreeSlots(w) == {d \in Slots : ~w.drv[d].used}

\* variant: int13_hook() does not search the list
Int13InUseNever(w, drive) == FALSE

\* int13_hook(): the list already holds a drive with this number
Int13InUse(w, drive) ==
    \E i \in 1..Len(w.int13s) : w.drv[w.int13s[i]].drive = drive

\* int13_hook(), up to the first wait loop of the pump
Int13Hook(w, drive_req) ==
    LET natural_drive == Or80(w.bda)
        drive == Or80(IF drive_req = INT13_USE_NATURAL_DRIVE
                      THEN natural_drive ELSE drive_req)
        d == CHOOSE x \in FreeSlots(w) : \A y \in FreeSlots(w) : x <= y
    IN IF Int13InUse(w, drive)
       THEN [w EXCEPT !.out.hook = << -EADDRINUSE >>]
       ELSE IF w.env = "nomem_drive" \/ FreeSlots(w) = {}
       THEN [w EXCEPT !.out.hook = << -ENOMEM >>]
       ELSE Int13ReopenBlock(
                [w EXCEPT !.drv[d] = [DriveZero EXCEPT !.used = TRUE,
                                                       !.drive = drive,
                                                       !.natural_drive = natural_drive],
                          !.dev[d] = DevNone,
                          !.call = [CallNone EXCEPT !.kind = "hook", !.d = d]],
                d)

\* int13_find(): the drive record with this number, 0 for NULL
Int13Find(w, drive) ==
    FirstOf({d \in Slots : /\ \E i \in 1..Len(w.int13s) : w.int13s[i] = d
                           /\ w.drv[d].drive = drive})

\* int13_unhook(): find the drive and shut its block interface down
Int13Unhook(w, drive) ==
    LET d == Int13Find(w, drive)
    IN IF d = 0 THEN w
       ELSE Int13BlockShutdown(
                Push([w EXCEPT !.out.d = d],
                     << Frame("int13_unhook_1", d, 0, 0, 0) >>), d, 0)

\* variant: int13_unhook() leaves the vector hooked
Int13Unhook1Hooked(w, d) ==
    [w EXCEPT !.int13s = SelectSeq(@, LAMBDA x : x # d),
              !.drv[d] = DriveZero, !.dev[d] = DevNone]

\* variant: int13_unhook() takes the drive out of the BIOS drive count
Int13Unhook1Counted(w, d) ==
    LET rest == SelectSeq(w.int13s, LAMBDA x : x # d)
        n == IF w.bda > 0 THEN w.bda - 1 ELSE 0
    IN [w EXCEPT !.int13s = rest,
                 !.num_drives = n, !.bda = n,
                 !.vector = IF rest = << >> THEN FALSE ELSE @,
                 !.out.vec = IF rest = << >> THEN Append(@, "unhook") ELSE @,
                 !.drv[d] = DriveZero, !.dev[d] = DevNone]

\* int13_unhook(): unlist the drive, unhook the vector with the last drive,
\* drop the list's reference
Int13Unhook1(w, d) ==
    LET rest == SelectSeq(w.int13s, LAMBDA x : x # d)
    IN [w EXCEPT !.int13s = rest,
                 !.vector = IF rest = << >> THEN FALSE ELSE @,
                 !.out.vec = IF rest = << >> THEN Append(@, "unhook") ELSE @,
                 !.drv[d] = DriveZero, !.dev[d] = DevNone]

\* the drive int13() finds for a BIOS drive number: dispatch, remap or none
RECURSIVE Int13Lookup(_, _, _)
Int13Lookup(w, list, bios_drive) ==
    IF list = << >> THEN [kind |-> "none", d |-> 0]
    ELSE IF bios_drive # w.drv[Head(list)].drive
    THEN IF bios_drive = w.drv[Head(list)].natural_drive
         THEN [kind |-> "remap", d |-> Head(list)]
         ELSE Int13Lookup(w, Tail(list), bios_drive)
    ELSE [kind |-> "dispatch", d |-> Head(list)]

\* variant: the sector number is taken as it comes
ChsToLbaFromZero(heads, sectors_per_track, cylinder, head, sector) ==
    U32((cylinder * heads + head) * sectors_per_track + sector)

\* ( ( cylinder * heads + head ) * sectors_per_track ) + sector - 1, as an
\* unsigned long of 32 bits
ChsToLba(heads, sectors_per_track, cylinder, head, sector) ==
    LET n == (cylinder * heads + head) * sectors_per_track + sector - 1
    IN IF n < 0 THEN Ones(2) ELSE U32(n)

\* int13_rw_sectors(): INT 13,02 and INT 13,03.  The three assertions are
\* recorded; none of them ends the call.
Int13RwSectors(w, d, type) ==
    LET int13 == w.drv[d]
        cylinder == (w.ix86.cl \div 64) * 256 + w.ix86.ch
        head == w.ix86.dh
        sector == w.ix86.cl % 64
        lba == Zext(ChsToLba(int13.heads, int13.sectors_per_track,
                             cylinder, head, sector), 4)
        count == U32(w.ix86.al)
        w1 == Check(w, cylinder < int13.cylinders, "cylinder < int13->cylinders")
        w2 == Check(w1, head < int13.heads, "head < int13->heads")
        w3 == Check(w2, sector >= 1 /\ sector <= int13.sectors_per_track,
                    "sector >= 1 && sector <= int13->sectors_per_track")
    IN IF int13.capacity.blksize # INT13_BLKSIZE
       THEN Int13Status(w, -INT13_STATUS_INVALID)
       ELSE Int13Rw([w3 EXCEPT !.out.chs = << [cylinder |-> cylinder, head |-> head,
                                               sector |-> sector, lba |-> lba] >>,
                               !.call.phase = "rw", !.call.type = type,
                               !.call.lba = lba, !.call.count = count,
                               !.call.addr = [lba |-> lba, count |-> count]])

\* the function of int13() asked for, on the drive found
Int13Dispatch(w, d, ah, lba, count) ==
    CASE ah = INT13_RESET -> Int13ReopenBlock(w, d)
      [] ah = INT13_GET_LAST_STATUS -> Int13Status(w, w.drv[d].last_status)
      [] ah = INT13_READ_SECTORS -> Int13RwSectors(w, d, "READ")
      [] ah = INT13_WRITE_SECTORS -> Int13RwSectors(w, d, "WRITE")
      [] ah = INT13_GET_PARAMETERS -> Int13Status(w, 0)
      [] ah = INT13_GET_DISK_TYPE -> Int13Status(w, INT13_DISK_TYPE_HDD)
      [] ah = INT13_EXTENSION_CHECK ->
             Int13Status(w, IF w.ix86.bx = INT13_EXTENSION_MAGIC
                            THEN INT13_EXTENSION_VER_1_X
                            ELSE -INT13_STATUS_INVALID)
      [] ah = INT13_EXTENDED_READ ->
             Int13Rw([w EXCEPT !.call.phase = "rw", !.call.type = "READ",
                               !.call.lba = lba, !.call.count = count,
                               !.call.addr = [lba |-> lba, count |-> count]])
      [] ah = INT13_EXTENDED_WRITE ->
             Int13Rw([w EXCEPT !.call.phase = "rw", !.call.type = "WRITE",
                               !.call.lba = lba, !.call.count = count,
                               !.call.addr = [lba |-> lba, count |-> count]])
      [] OTHER -> Int13Status(w, -INT13_STATUS_INVALID)

\* int13(), up to the first wait loop of the pump
Int13(w, ah, dl, lba, count) ==
    LET w1 == Int13CheckNumDrives(w)
        found == Int13Lookup(w1, w1.int13s, dl)
        chained == << [ah |-> ah, cf |-> TRUE, of |-> FALSE] >>
    IN IF found.kind = "none" THEN [w1 EXCEPT !.out.regs = chained]
       ELSE IF found.kind = "remap"
       THEN \* DL is a byte
            [w1 EXCEPT !.out.remap = << w1.drv[found.d].drive % 256 >>,
                       !.out.regs = chained]
       ELSE Int13Dispatch(
                [w1 EXCEPT !.call = [CallNone EXCEPT !.kind = "int13",
                                                     !.d = found.d, !.func = ah],
                           !.out.d = found.d],
                found.d, ah, lba, count)

(***************************************************************************)
(* Running the calls.                                                      *)
(***************************************************************************)
Exec(w, f) ==
    CASE f.op = "return" -> Ret(w, f.rc)
      [] f.op = "srpdev_scsi_command" -> SrpdevScsiCommand(w, f.d, f.c, f.x)
      [] f.op = "srpcmd_close" -> SrpcmdClose(w, f.d, f.c, f.rc, f.x)
      [] f.op = "srp_rsp_close" -> SrpRspClose(w, f.d, f.c)
      [] f.op = "srpdev_close" -> SrpdevClose(w, f.d, f.rc)
      [] f.op = "srpdev_close_1" -> SrpdevClose1(w, f.d, f.rc)
      [] f.op = "srpdev_deliver_1" -> SrpdevDeliver1(w, f.d)
      [] f.op = "scsicmd_command" -> ScsicmdCommand(w, f.d, f.c)
      [] f.op = "scsicmd_command_1" -> ScsicmdCommand1(w, f.d, f.c)
      [] f.op = "scsicmd_read_capacity_done" ->
             ScsicmdReadCapacityDone(w, f.d, f.c, f.rc)
      [] f.op = "scsicmd_read_capacity_done_1" ->
             ScsicmdReadCapacityDone1(w, f.d, f.c)
      [] f.op = "scsicmd_done" -> ScsicmdDone(w, f.d, f.c, f.rc)
      [] f.op = "scsicmd_done_1" -> ScsicmdDone1(w, f.d, f.c, f.rc)
      [] f.op = "scsicmd_done_2" -> ScsicmdDone2(w, f.d, f.c)
      [] f.op = "scsicmd_response" -> ScsicmdResponse(w, f.d, f.c, f.rc)
      [] f.op = "scsicmd_close" -> ScsicmdClose(w, f.d, f.c, f.rc)
      [] f.op = "scsicmd_close_1" -> ScsicmdClose1(w, f.d, f.c, f.rc)
      [] f.op = "scsicmd_close_listed" -> ScsicmdCloseListed(w, f.d, f.c, f.rc)
      [] f.op = "scsidev_command_1" -> ScsidevCommand1(w, f.d, f.c, f.x)
      [] f.op = "scsidev_close" -> ScsidevClose(w, f.d, f.rc)
      [] f.op = "scsidev_close_1" -> ScsidevClose1(w, f.d, f.rc)
      [] f.op = "scsidev_close_2" -> ScsidevClose2(w, f.d, f.rc)
      [] f.op = "int13_command_close" -> Int13CommandClose(w, f.rc)
      [] f.op = "int13_command_close_1" -> Int13CommandClose1(w, f.rc)
      [] f.op = "int13_block_close" -> Int13BlockClose(w, f.d, f.rc)
      [] f.op = "int13_command_issue_1" -> Int13CommandIssue1(w)
      [] f.op = "int13_hook_fail_1" -> Int13HookFail1(w, f.d, f.rc)
      [] f.op = "int13_unhook_1" -> Int13Unhook1(w, f.d)
      [] f.op = "int13_reopen_block_1" -> Int13ReopenBlock1(w, f.d)
      [] f.op = "int13_reopen_block_2" -> Int13ReopenBlock2(w, f.d)

\* make the calls on the stack until none is left (each world is computed
\* once, as the value v, before the next call is made on it)
RECURSIVE Run(_)
Run(w) ==
    CHOOSE r \in {IF v.stack = << >> THEN v
                  ELSE Run(Exec([v EXCEPT !.stack = Tail(@)], Head(v.stack))) :
                  v \in {w}} : TRUE

(***************************************************************************)
(* The target and the transport.                                           *)
(***************************************************************************)
\* data the target places in the initiator's buffer before a good response:
\* the READ CAPACITY reply, or the sector holding the partition table
TargetWrite(w, d, iu) ==
    LET i == SrpFindTag(w.dev[d].commands, iu.tag)
        c == IF i = 0 THEN 0 ELSE w.dev[d].commands[i].scsi
    IN IF iu.type # "RSP" \/ iu.len # "full" \/ iu.status # 0 \/ c = 0 THEN w
       ELSE IF ScsiCmd(w, d, c).type = "READ_CAPACITY"
       THEN [w EXCEPT !.dev[d].cmds[CmdIdx(w, d, c)].capbuf =
                          [lba |-> iu.data.lba, blksize |-> iu.data.blksize]]
       ELSE IF ScsiCmd(w, d, c).type = "READ" /\ w.call.kind = "hook"
                 /\ w.command.cmd = c
       THEN [w EXCEPT !.call.parts = iu.data.parts]
       ELSE w

PartNone == [type |-> 0, chs_end |-> << 0, 0, 0 >>]
\* partition tables the first sector can hold
MbrTables ==
    { << PartNone, PartNone, PartNone, PartNone >>,
      << [type |-> 131, chs_end |-> << 15, 63, 255 >>],
         PartNone, PartNone, PartNone >> }

\* READ CAPACITY replies of the target: (10) and (16)
CapacityReplies(use16) ==
    IF use16
    THEN { [NoData EXCEPT !.form = 16, !.lba = << 65535, 65535, 0, 0 >>,
                          !.blksize = 512] }
    ELSE { [NoData EXCEPT !.form = 10, !.lba = << 65535, 15, 0, 0 >>,
                          !.blksize = 512],
           [NoData EXCEPT !.form = 10, !.lba = << 65535, 15, 0, 0 >>,
                          !.blksize = 2048],
           [NoData EXCEPT !.form = 10, !.lba = << 65535, 65535, 0, 0 >>,
                          !.blksize = 512] }

\* SCSI status bytes of a response: GOOD, CHECK CONDITION
Statuses == {0, 2}

\* a tag no listed command has: the latest tag srp_new_tag() has given out
\* that is no longer listed (the response to a command that has been closed
\* arrives late), or 0 when there is none
StaleTag(commands) ==
    LET past == {t \in {tag_idx - k : k \in 0..Len(commands)} :
                    t >= 1 /\ SrpFindTag(commands, t) = 0}
    IN IF past = {} THEN 0
       ELSE CHOOSE t \in past : \A u \in past : u <= t

\* data that can accompany a response with this tag and status
DataFor(d, tag, status) ==
    LET i == SrpFindTag(dev[d].commands, tag)
        c == IF i = 0 THEN 0 ELSE dev[d].commands[i].scsi
        k == IF c = 0 THEN 0
             ELSE FirstOf({j \in 1..Len(dev[d].cmds) : dev[d].cmds[j].id = c})
    IN IF status # 0 \/ k = 0 THEN {NoData}
       ELSE IF dev[d].cmds[k].type = "READ_CAPACITY"
       THEN CapacityReplies(dev[d].cmds[k].use16)
       ELSE IF dev[d].cmds[k].type = "READ" /\ call.kind = "hook"
       THEN {[NoData EXCEPT !.parts = t] : t \in MbrTables}
       ELSE {NoData}

\* IUs the target can send on session d
IUs(d) ==
    LET tags == {dev[d].commands[i].tag : i \in 1..Len(dev[d].commands)}
                    \cup {StaleTag(dev[d].commands)}
    IN {[type |-> t, len |-> l, tag |-> 0, status |-> 0, data |-> NoData] :
            t \in {"LOGIN_RSP", "LOGIN_REJ", "RSP"}, l \in {"full", "hdr"}}
       \cup {[type |-> "OTHER", len |-> l, tag |-> 0, status |-> 0, data |-> NoData] :
            l \in {"full", "short"}}
       \cup UNION {UNION {{[type |-> "RSP", len |-> "full", tag |-> t, status |-> st,
                            data |-> x] : x \in DataFor(d, t, st)} :
                          st \in Statuses} : t \in tags}

\* what allocation and transmission can do during one handler run
Envs == {"ok", "nomem_scsicmd", "nomem_cmd", "nomem_iob", "send_fail"}
OpenEnvs == {"ok", "nomem_dev", "nomem_iob", "send_fail", "nomem_scsi"}
HookEnvs == OpenEnvs \cup {"nomem_drive"}

(***************************************************************************)
(* Initial state.                                                          *)
(***************************************************************************)
Init ==
    /\ int13s = << >>
    /\ drv = [d \in Slots |-> DriveZero]
    /\ num_drives = 0
    /\ bda = 0
    /\ vector = FALSE
    /\ dev = [d \in Slots |-> DevNone]
    /\ command = [rc |-> 0, int13 |-> 0, timer |-> FALSE, cmd |-> 0]
    /\ tag_idx = 0
    /\ elapsed = 0
    /\ pc = "idle"
    /\ call = CallNone
    /\ failed = {}
    /\ out = OutNone("Init")
    /\ ncalls = 0
    /\ nbad = 0

(***************************************************************************)
(* Actions.                                                                *)
(***************************************************************************)
\* step() can run: the main loop, or one of the two wait loops of the pump
CanStep ==
    \/ pc = "idle"
    \/ pc = "start" /\ Int13StartWaiting(World("", "ok"))
    \/ pc = "wait" /\ command.rc = -EINPROGRESS

\* int13_hook() is called
\* (zalloc() gives the registry at most `drives` drive records)
Hook(drive_req, env, calls, drives) ==
    /\ pc = "idle"
    /\ ncalls < calls
    /\ ncalls' = ncalls + 1
    /\ UNCHANGED nbad
    /\ Commit(Run(Int13Hook(
           [World("Hook", IF Len(int13s) >= drives THEN "nomem_drive" ELSE env)
               EXCEPT !.out.req = << drive_req >>], drive_req)))

\* the firmware raises INT 13
Int13Call(ah, dl, lba, count, env, calls) ==
    /\ pc = "idle"
    /\ vector
    /\ ncalls < calls
    /\ ncalls' = ncalls + 1
    /\ UNCHANGED nbad
    /\ Commit(Run(Int13([World("Int13Call", env) EXCEPT !.out.entry = << bda >>,
                                                        !.out.req = << dl >>],
                         ah, dl, lba, count)))

\* the firmware raises INT 13 for a function that takes its arguments in
\* registers
Int13Regs(ah, dl, ix86, calls) ==
    /\ pc = "idle"
    /\ vector
    /\ ncalls < calls
    /\ ncalls' = ncalls + 1
    /\ UNCHANGED nbad
    /\ Commit(Run(Int13([World("Int13Call", "ok") EXCEPT !.out.entry = << bda >>,
                                                         !.out.req = << dl >>,
                                                         !.ix86 = ix86],
                         ah, dl, U64(0), U32(0))))

\* int13_command_start() leaves its wait loop
StartDone(env) ==
    /\ pc = "start"
    /\ ~Int13StartWaiting(World("", "ok"))
    /\ Commit(Run(Int13CommandIssue(World("StartDone", env))))
    /\ UNCHANGED << ncalls, nbad >>

\* int13_command_wait() leaves its wait loop
WaitDone ==
    /\ pc = "wait"
    /\ command.rc # -EINPROGRESS
    /\ Commit(Int13CommandWaitDone(World("WaitDone", "ok")))
    /\ UNCHANGED << ncalls, nbad >>

\* the caller of the run continues; `junk` is what the stack buffer of
\* int13_guess_geometry() holds where nothing was written to it
\* the run returns to int13_rw() or int13_read_capacity(), in a program in
\* which undefined behaviour does `ub`
ReturnUb(junk, ub) ==
    /\ pc = "ret"
    /\ LET w == [World("Return", "ok") EXCEPT !.ub = ub]
       IN Commit(Run(Int13RunReturn(
              IF call.parts = << >> THEN [w EXCEPT !.call.parts = junk] ELSE w)))
    /\ UNCHANGED << ncalls, nbad >>

Return(junk) == ReturnUb(junk, "intact")

\* the IU answers a listed command with a status other than GOOD
BadStatus(d, iu) ==
    /\ iu.type = "RSP" /\ iu.len = "full" /\ iu.status # 0
    /\ SrpFindTag(dev[d].commands, iu.tag) # 0

\* step(): an IU arrives on the socket of session d; the target sends at
\* most `max` responses with a status other than GOOD
\* the same, in a run in which a write to freed memory does `ub`, at a
\* moment `can` at which step() handles events
DeliverIf(can, d, iu, env, ub, max) ==
    /\ can
    /\ BadStatus(d, iu) => nbad < max
    /\ dev[d].socket
    /\ env = "ok" \/ (iu.type = "RSP" /\ iu.len = "full"
                      /\ SrpFindTag(dev[d].commands, iu.tag) # 0)
    /\ Commit(Run(SrpdevDeliver(TargetWrite([World("Deliver", env) EXCEPT !.ub = ub],
                                             d, iu), d, iu)))
    /\ nbad' = IF BadStatus(d, iu) THEN nbad + 1 ELSE nbad
    /\ UNCHANGED ncalls

DeliverUb(d, iu, env, ub, max) == DeliverIf(CanStep, d, iu, env, ub, max)

Deliver(d, iu, env, max) == DeliverUb(d, iu, env, "intact", max)

\* step(): the transport closes the socket of session d
SocketCloseIf(can, d, rc) ==
    /\ can
    /\ dev[d].socket
    /\ Commit(Run(SrpdevClose([World("SocketClose", "ok") EXCEPT !.out.d = d], d, rc)))
    /\ UNCHANGED << ncalls, nbad >>

SocketClose(d, rc) == SocketCloseIf(CanStep, d, rc)

\* a second passes while the command timer runs
Tick ==
    /\ CanStep
    /\ command.timer
    /\ elapsed < INT13_COMMAND_TIMEOUT
    /\ Commit([World("Tick", "ok") EXCEPT !.elapsed = @ + TickSeconds])
    /\ UNCHANGED << ncalls, nbad >>

\* step(): the command timer expires
TimerExpiredIf(can) ==
    /\ can
    /\ command.timer
    /\ elapsed >= INT13_COMMAND_TIMEOUT
    /\ Commit(Run(Int13CommandExpired(World("TimerExpired", "ok"))))
    /\ UNCHANGED << ncalls, nbad >>

TimerExpired == TimerExpiredIf(CanStep)

Next ==
    \/ \E r \in HookDrives, e \in HookEnvs : Hook(r, e, MaxCalls, MaxDrives)
    \/ \E ah \in Functions, dl \in BiosDrives, lba \in PacketLbas,
          count \in PacketCounts, e \in OpenEnvs :
          Int13Call(ah, dl, lba, count, e, MaxCalls)
    \/ \E e \in Envs : StartDone(e)
    \/ WaitDone
    \/ \E junk \in MbrTables : Return(junk)
    \/ \E d \in Slots : \E iu \in IUs(d), e \in Envs :
          Deliver(d, iu, e, MaxBadStatus)
    \/ \E d \in Slots, rc \in {0, -ECONNRESET} : SocketClose(d, rc)
    \/ Tick
    \/ TimerExpired

Spec == Init /\ [][Next]_vars

(***************************************************************************)
(* The block device under a direct client: a user of the block interface   *)
(* other than the INT 13 emulation, which opens an SRP device and issues   *)
(* commands without waiting for the window.                                *)
(***************************************************************************)
\* srp_open() with the client's block control interface
ClientOpen(d, env, calls) ==
    /\ pc = "idle"
    /\ ncalls < calls
    /\ ~drv[d].used /\ ~dev[d].socket /\ ~dev[d].block
    /\ LET w == Run(SrpOpen([World("ClientOpen", env) EXCEPT !.out.d = d], d, TRUE))
       IN Commit([w EXCEPT !.out.rc = w.ret])
    /\ ncalls' = ncalls + 1
    /\ UNCHANGED nbad

\* block_read(), block_write() or block_read_capacity() on the client's
\* control interface, with a data interface of the client's; the client
\* makes at most `calls` calls and has at most `cmds` commands outstanding
\* the same, in a run in which a write to freed memory does `ub`
ClientCommandUb(d, type, lba, count, env, ub, calls, cmds) ==
    /\ pc = "idle"
    /\ ncalls < calls
    /\ dev[d].block /\ dev[d].client
    /\ Len(dev[d].cmds) < cmds
    /\ LET w == Run(ScsidevCommand([World("ClientCommand", env)
                                       EXCEPT !.out.d = d, !.ub = ub],
                                   d, "client", type, lba, count))
       IN Commit([w EXCEPT !.out.rc = w.ret])
    /\ ncalls' = ncalls + 1
    /\ UNCHANGED nbad

ClientCommand(d, type, lba, count, env, calls, cmds) ==
    ClientCommandUb(d, type, lba, count, env, "intact", calls, cmds)

\* the client shuts its control interface down: intf_shutdown ( block, rc )
ClientClose(d, rc, calls) ==
    /\ pc = "idle"
    /\ ncalls < calls
    /\ dev[d].block /\ dev[d].client
    /\ Commit(Run(ScsidevClose([World("ClientClose", "ok")
                                   EXCEPT !.dev[d].block = FALSE, !.out.d = d],
                                d, rc)))
    /\ ncalls' = ncalls + 1
    /\ UNCHANGED nbad

NextBlock ==
    \/ \E d \in 1..MaxDrives, e \in OpenEnvs : ClientOpen(d, e, MaxClientCalls)
    \/ \E d \in 1..MaxDrives, t \in {"READ", "WRITE", "READ_CAPACITY"},
          lba \in PacketLbas, count \in PacketCounts, e \in Envs :
          ClientCommand(d, t, lba, count, e, MaxClientCalls, MaxClientCmds)
    \/ \E d \in Slots, rc \in {0, -ECONNRESET} : ClientClose(d, rc, MaxClientCalls)
    \/ \E d \in Slots : \E iu \in IUs(d), e \in Envs :
          Deliver(d, iu, e, MaxBadStatusBlock)
    \/ \E d \in Slots, rc \in {0, -ECONNRESET} : SocketClose(d, rc)

SpecBlock == Init /\ [][NextBlock]_vars

(***************************************************************************)
(* The registry: drives are registered and unregistered, the firmware      *)
(* raises INT 13 and, between the calls, writes what it likes to its drive *)
(* count.  The target is one that accepts the login and answers every      *)
(* command with success.                                                   *)
(***************************************************************************)
\* int13_unhook() is called
Unhook(drive) ==
    /\ pc = "idle"
    /\ ncalls < MaxRegCalls
    /\ ncalls' = ncalls + 1
    /\ UNCHANGED nbad
    /\ Commit(Run(Int13Unhook([World("Unhook", "ok") EXCEPT !.out.req = << drive >>],
                               drive)))

\* the firmware stores n as its number of drives (a byte)
BiosSetsDrives(n) ==
    /\ pc = "idle"
    /\ bda # n
    /\ Commit([World("BiosSetsDrives", "ok") EXCEPT !.bda = n])
    /\ UNCHANGED << ncalls, nbad >>

\* drive numbers int13_hook() is asked for (an unsigned int)
RegDrives == {INT13_USE_NATURAL_DRIVE, 0, 129, 256}
\* drive numbers int13_unhook() is called with
UnhookDrives == {128, 129, 384}
\* numbers of drives the firmware stores
BdaValues == {0, 1, 255}

\* IUs of a target that accepts and succeeds, with blocks of 512 bytes
GoodIUs(d) ==
    {iu \in IUs(d) :
        /\ iu.len = "full" /\ iu.status = 0
        /\ iu.data.blksize \in {0, INT13_BLKSIZE}
        /\ \/ iu.type = "LOGIN_RSP" /\ ~dev[d].logged_in
           \/ iu.type = "RSP" /\ SrpFindTag(dev[d].commands, iu.tag) # 0}

\* the same target, reporting 2^20 blocks
DiskIUs(d) ==
    {iu \in GoodIUs(d) : iu.data.form = 0 \/ iu.data.lba = << 65535, 15, 0, 0 >>}

NextRegistry ==
    \/ \E r \in RegDrives, e \in {"ok", "send_fail"} :
          Hook(r, e, MaxRegCalls, MaxRegDrives)
    \/ \E drive \in UnhookDrives : Unhook(drive)
    \/ \E dl \in BiosDrives :
          Int13Call(INT13_GET_LAST_STATUS, dl, U64(0), U32(0), "ok", MaxRegCalls)
    \/ \E n \in BdaValues : BiosSetsDrives(n)
    \/ StartDone("ok")
    \/ WaitDone
    \/ \E junk \in MbrTables : Return(junk)
    \/ \E d \in Slots : \E iu \in DiskIUs(d) : Deliver(d, iu, "ok", MaxBadStatus)

SpecRegistry == Init /\ [][NextRegistry]_vars

(***************************************************************************)
(* The firmware's calls: drives are registered under their natural number, *)
(* under another one and under one above 0xFF, and the firmware calls the  *)
(* functions of INT 13 for drives 0x80 and 0x81.  The target answers every *)
(* command with success, and accepts or rejects the login.                 *)
(***************************************************************************)
FwDrives == {INT13_USE_NATURAL_DRIVE, 129, 256}
FwFunctions ==
    {INT13_RESET, INT13_GET_LAST_STATUS, INT13_READ_SECTORS, INT13_GET_PARAMETERS,
     INT13_GET_DISK_TYPE, INT13_EXTENSION_CHECK, INT13_UNRECOGNISED}
\* registers of the calls: the first sector of the drive, one block; BX with
\* and without the signature of INT 13,41
FwRegs == {[Ix86None EXCEPT !.bx = bx, !.cl = 1, !.al = 1] :
               bx \in {0, INT13_EXTENSION_MAGIC}}

FwIUs(d) ==
    DiskIUs(d) \cup {iu \in IUs(d) : iu.type = "LOGIN_REJ" /\ iu.len = "full"}

NextFirmware ==
    \/ \E r \in FwDrives : Hook(r, "ok", MaxFwCalls, MaxRegDrives)
    \/ \E ah \in FwFunctions, dl \in BiosDrives, ix86 \in FwRegs :
          Int13Regs(ah, dl, ix86, MaxFwCalls)
    \/ StartDone("ok")
    \/ WaitDone
    \/ \E junk \in MbrTables : Return(junk)
    \/ \E d \in Slots : \E iu \in FwIUs(d) : Deliver(d, iu, "ok", MaxBadStatus)

SpecFirmware == Init /\ [][NextFirmware]_vars

(***************************************************************************)
(* Reads and writes by cylinder, head and sector, of a drive of 2^20 blocks *)
(* registered as 0x80 with one of the geometries that a partition table    *)
(* can give it.                                                            *)
(***************************************************************************)
\* the state in which int13 is the one registered drive (slot 1), with its
\* block device open and logged in
InitDrive(int13) ==
    /\ int13s = << 1 >>
    /\ drv = [d \in Slots |-> IF d = 1 THEN int13 ELSE DriveZero]
    /\ num_drives = 1
    /\ bda = 1
    /\ vector = TRUE
    /\ dev = [d \in Slots |->
                IF d = 1
                THEN [DevNone EXCEPT !.socket = TRUE, !.scsi = TRUE, !.block = TRUE,
                                     !.logged_in = TRUE, !.accepted = TRUE]
                ELSE DevNone]
    /\ command = [rc |-> 0, int13 |-> 0, timer |-> FALSE, cmd |-> 0]
    /\ tag_idx = 3
    /\ elapsed = 0
    /\ pc = "idle"
    /\ call = CallNone
    /\ failed = {}
    /\ out = OutNone("Init")
    /\ ncalls = 0
    /\ nbad = 0

\* heads and sectors per track: chs_end.head + 1 and chs_end.sector of a
\* partition table entry, or the defaults
ChsGeometries ==
    {[heads |-> h, sectors_per_track |-> n] :
        h \in {1, 16, 255, 256}, n \in {1, 17, 63}}

\* the drive of 2^20 blocks with geometry g
ChsDrive(g) ==
    LET per_cyl == g.heads * g.sectors_per_track
        cyl == 1048576 \div per_cyl
    IN [DriveZero EXCEPT !.used = TRUE, !.drive = 128, !.natural_drive = 128,
                         !.capacity = [blocks |-> << 0, 16, 0, 0 >>,
                                       blksize |-> INT13_BLKSIZE,
                                       max_count |-> MaxCountUnbounded],
                         !.cylinders = IF cyl > 1024 THEN 1024 ELSE cyl,
                         !.heads = g.heads,
                         !.sectors_per_track = g.sectors_per_track]

InitChs == \E g \in ChsGeometries : InitDrive(ChsDrive(g))

\* CH, CL (sector, and bits 9:8 of the cylinder), DH and AL of the calls
ChsRegs ==
    {[Ix86None EXCEPT !.ch = ch, !.cl = hi * 64 + sector, !.dh = dh, !.al = 1] :
        ch \in {0, 1, 64, 255}, hi \in {0, 3}, sector \in {0, 1, 2, 17, 18, 63},
        dh \in {0, 1, 15, 16, 255}}

NextChs ==
    \/ \E ah \in {INT13_READ_SECTORS, INT13_WRITE_SECTORS}, ix86 \in ChsRegs :
          Int13Regs(ah, 128, ix86, MaxChsCalls)
    \/ StartDone("ok")
    \/ WaitDone
    \/ \E junk \in MbrTables : Return(junk)
    \/ \E d \in Slots : \E iu \in DiskIUs(d) : Deliver(d, iu, "ok", MaxBadStatus)

SpecChs == InitChs /\ [][NextChs]_vars

(***************************************************************************)
(* Resets of a healthy drive: the same drive of 2^20 blocks, whose target   *)
(* accepts every login and reports 2^20 blocks of 512 bytes every time.    *)
(***************************************************************************)
NextReset ==
    \/ Int13Call(INT13_RESET, 128, U64(0), U32(0), "ok", MaxResetCalls)
    \/ StartDone("ok")
    \/ WaitDone
    \/ \E junk \in MbrTables : Return(junk)
    \/ \E d \in Slots : \E iu \in DiskIUs(d) : Deliver(d, iu, "ok", MaxBadStatus)

SpecReset == InitChs /\ [][NextReset]_vars

(***************************************************************************)
(* The geometry of a drive: a drive is registered whose target reports one *)
(* of the capacities and holds one of a set of partition tables in its     *)
(* first block.                                                            *)
(***************************************************************************)
Used(type, head, sector) == [type |-> type, chs_end |-> << head, sector, 255 >>]

\* partition tables: empty; one entry; two used entries with an unused one
\* between them; head 255 with the cylinder bits set in the sector byte; an
\* unused entry that has an end address; the fourth entry used; a used
\* entry with sector 0
GeoTables ==
    { << PartNone, PartNone, PartNone, PartNone >>,
      << Used(131, 15, 63), PartNone, PartNone, PartNone >>,
      << Used(131, 15, 63), PartNone, Used(7, 254, 17), PartNone >>,
      << PartNone, Used(12, 255, 255), PartNone, PartNone >>,
      << Used(0, 7, 9), PartNone, PartNone, PartNone >>,
      << Used(131, 15, 63), Used(0, 1, 2), PartNone, Used(5, 3, 5) >>,
      << Used(238, 0, 0), PartNone, PartNone, PartNone >> }

\* what the target answers the command with tag t with
GeoDataFor(d, t) ==
    LET i == SrpFindTag(dev[d].commands, t)
        c == dev[d].commands[i].scsi
        k == FirstOf({j \in 1..Len(dev[d].cmds) : dev[d].cmds[j].id = c})
    IN IF k = 0 THEN {NoData}
       ELSE IF dev[d].cmds[k].type = "READ_CAPACITY"
       THEN CapacityReplies(dev[d].cmds[k].use16)
       ELSE {[NoData EXCEPT !.parts = t2] : t2 \in GeoTables}

GeoIUs(d) ==
    {iu \in IUs(d) : iu.type = "LOGIN_RSP" /\ iu.len = "full" /\ ~dev[d].logged_in}
    \cup UNION {{[type |-> "RSP", len |-> "full", tag |-> dev[d].commands[i].tag,
                  status |-> 0, data |-> x] :
                    x \in GeoDataFor(d, dev[d].commands[i].tag)} :
                i \in 1..Len(dev[d].commands)}

\* what a division by zero does
DivUbs == {"fault", "zero", "ones"}

NextGeometry ==
    \/ Hook(INT13_USE_NATURAL_DRIVE, "ok", MaxGeoCalls, MaxRegDrives)
    \/ StartDone("ok")
    \/ WaitDone
    \/ \E junk \in MbrTables, ub \in DivUbs : ReturnUb(junk, ub)
    \/ \E d \in Slots : \E iu \in GeoIUs(d) : Deliver(d, iu, "ok", MaxBadStatus)

SpecGeometry == Init /\ [][NextGeometry]_vars

(***************************************************************************)
(* Reads and writes of a drive whose block device has a transfer limit.    *)
(* The drive has been registered (one firmware-level operation); the       *)
(* capacity its block device reported through block_capacity() has a       *)
(* max_count of RwMaxCount blocks.  (The SCSI device reports -1U, with     *)
(* which int13_rw() makes one fragment of every transfer.)                 *)
(***************************************************************************)
\* capacities the block device reported
RwCapacities ==
    {[blocks |-> U64(4096), blksize |-> INT13_BLKSIZE, max_count |-> U32(m)] :
        m \in {RwMaxCount, RwMaxCount + 1}}

\* disk address packets of the firmware
RwLbas == {U64(RwStart)}
RwCounts == {U32(RwBlocks - 1), U32(RwBlocks)}

InitRw ==
    /\ int13s = << 1 >>
    /\ \E capacity \in RwCapacities :
          drv = [d \in Slots |->
                   IF d = 1
                   THEN [DriveZero EXCEPT !.used = TRUE, !.drive = 128,
                                          !.natural_drive = 128,
                                          !.capacity = capacity,
                                          !.cylinders = 1, !.heads = 255,
                                          !.sectors_per_track = 63]
                   ELSE DriveZero]
    /\ num_drives = 1
    /\ bda = 1
    /\ vector = TRUE
    /\ dev = [d \in Slots |->
                IF d = 1
                THEN [DevNone EXCEPT !.socket = TRUE, !.scsi = TRUE, !.block = TRUE,
                                     !.logged_in = TRUE, !.accepted = TRUE]
                ELSE DevNone]
    /\ command = [rc |-> 0, int13 |-> 0, timer |-> FALSE, cmd |-> 0]
    /\ tag_idx = 3
    /\ elapsed = 0
    /\ pc = "idle"
    /\ call = CallNone
    /\ failed = {}
    /\ out = OutNone("Init")
    /\ ncalls = 1
    /\ nbad = 0

NextRw ==
    \/ \E ah \in {INT13_EXTENDED_READ, INT13_EXTENDED_WRITE}, dl \in BiosDrives,
          lba \in RwLbas, count \in RwCounts :
          Int13Call(ah, dl, lba, count, "ok", MaxCalls)
    \/ \E e \in Envs : StartDone(e)
    \/ WaitDone
    \/ \E junk \in MbrTables : Return(junk)
    \/ \E d \in Slots : \E iu \in IUs(d), e \in Envs :
          Deliver(d, iu, e, MaxBadStatus)
    \/ \E d \in Slots, rc \in {0, -ECONNRESET} : SocketClose(d, rc)
    \/ Tick
    \/ TimerExpired

SpecRw == InitRw /\ [][NextRw]_vars

(***************************************************************************)
(* Reads and writes over the whole range of block addresses: a client      *)
(* opens an SRP device and, once logged in, issues one read or write.      *)
(***************************************************************************)
\* block addresses around 2^32 and up to 2^64 - 1
CdbLbas ==
    { U64(0), U64(RwStart),
      << Limb - 3, Limb - 1, 0, 0 >>, << Limb - 2, Limb - 1, 0, 0 >>,
      << Limb - 1, Limb - 1, 0, 0 >>, << 0, 0, 1, 0 >>, << 1, 0, 1, 0 >>,
      << 0, 0, 0, 1 >>, << Limb - 3, Limb - 1, Limb - 1, Limb - 1 >>,
      << Limb - 2, Limb - 1, Limb - 1, Limb - 1 >>, Ones(4) }

\* small counts, and the counts on either side of the 16-bit length field
CdbCounts == {U32(n) : n \in 1..MaxCdbCount} \cup {U32(Limb - 1), U32(Limb)}

NextCdb ==
    \/ \E d \in 1..MaxDrives : ClientOpen(d, "ok", MaxCdbCalls)
    \/ \E d \in 1..MaxDrives, t \in {"READ", "WRITE"}, lba \in CdbLbas, count \in CdbCounts :
          ClientCommand(d, t, lba, count, "ok", MaxCdbCalls, MaxClientCmds)
    \/ \E d \in Slots : \E iu \in IUs(d) : Deliver(d, iu, "ok", MaxBadStatus)

SpecCdb == Init /\ [][NextCdb]_vars

(***************************************************************************)
(* A drive whose block device closes: the session is closed by the         *)
(* transport or by the refusal of a login, and the firmware goes on        *)
(* reading, writing and resetting.                                         *)
(***************************************************************************)
InitLatch == InitDrive(ChsDrive([heads |-> 16, sectors_per_track |-> 63]))

NextLatch ==
    \/ \E ah \in {INT13_READ_SECTORS, INT13_WRITE_SECTORS} :
          Int13Regs(ah, 128, [Ix86None EXCEPT !.cl = 1, !.al = 1], MaxLatchCalls)
    \/ \E e \in OpenEnvs :
          Int13Call(INT13_RESET, 128, U64(0), U32(0), e, MaxLatchCalls)
    \/ StartDone("ok")
    \/ WaitDone
    \/ \E junk \in MbrTables : Return(junk)
    \/ \E d \in Slots : \E iu \in FwIUs(d) : Deliver(d, iu, "ok", MaxBadStatus)
    \/ \E d \in Slots, rc \in {0, -ECONNRESET} : SocketClose(d, rc)

SpecLatch == InitLatch /\ [][NextLatch]_vars

(***************************************************************************)
(* References: a client issues reads, before and after the login, while    *)
(* allocation and transmission may fail, and closes.  The specifications   *)
(* above take a write to freed memory to leave the program intact; here it *)
(* may also end the program.                                               *)
(***************************************************************************)
Ubs == {"intact", "fault"}

NextRefs ==
    \/ \E d \in 1..MaxDrives : ClientOpen(d, "ok", MaxRefCalls)
    \/ \E d \in 1..MaxDrives, lba \in PacketLbas, e \in Envs, ub \in Ubs :
          ClientCommandUb(d, "READ", lba, U32(1), e, ub, MaxRefCalls, MaxClientCmds)
    \/ \E d \in Slots, rc \in {0, -ECONNRESET} : ClientClose(d, rc, MaxRefCalls)
    \/ \E d \in Slots : \E iu \in IUs(d), e \in Envs, ub \in Ubs :
          DeliverUb(d, iu, e, ub, MaxBadStatus)
    \/ \E d \in Slots, rc \in {0, -ECONNRESET} : SocketClose(d, rc)

SpecRefs == Init /\ [][NextRefs]_vars

(***************************************************************************)
(* Retries: a client keeps two reads outstanding while the target answers  *)
(* with up to MaxBadStatusBlock failing statuses.                          *)
(***************************************************************************)
NextRetry ==
    \/ \E d \in 1..MaxDrives : ClientOpen(d, "ok", MaxRetryCalls)
    \/ \E d \in 1..MaxDrives, lba \in PacketLbas :
          ClientCommand(d, "READ", lba, U32(1), "ok", MaxRetryCalls, MaxRetryCmds)
    \/ \E d \in Slots : \E iu \in IUs(d) : Deliver(d, iu, "ok", MaxBadStatusBlock)

SpecRetry == Init /\ [][NextRetry]_vars

(***************************************************************************)
(* Tags.  The counter of srp_new_tag() is static: every SRP device of the  *)
(* program advances it.  A session is followed here together with a       *)
(* second SRP device, of which only the tag allocations are followed: its  *)
(* commands are issued and completed one at a time, so that each of its    *)
(* allocations finds the value after the counter unused.                   *)
(***************************************************************************)
\* variant: a tag counter of its own for every SRP device
SrpNewTagsOwn(idx, n) == idx

\* srp_new_tag() called n times by an SRP device with no command listed
RECURSIVE SrpNewTags(_, _)
SrpNewTags(idx, n) ==
    IF n = 0 THEN idx
    ELSE LET k == IF n < TagSpace - idx THEN n ELSE TagSpace - idx
         IN \* k calls bring the counter to idx + k, the last one wrapping it
            SrpNewTags((idx + k) % TagSpace, n - k)

\* numbers of commands the second SRP device issues in one go
TagBursts == {TagSpace - 2, TagSpace - 1}

\* the second SRP device issues and completes n commands
OtherSessionTags(n) ==
    /\ pc = "idle"
    /\ ncalls < MaxTagCalls
    /\ Commit([World("OtherSessionTags", "ok")
                  EXCEPT !.tag_idx = SrpNewTags(tag_idx, n)])
    /\ ncalls' = ncalls + 1
    /\ UNCHANGED nbad

NextTags ==
    \/ \E d \in 1..MaxDrives : ClientOpen(d, "ok", MaxTagCalls)
    \/ \E d \in 1..MaxDrives, lba \in PacketLbas :
          ClientCommand(d, "READ", lba, U32(1), "ok", MaxTagCalls, MaxTagCmds)
    \/ \E n \in TagBursts : OtherSessionTags(n)
    \/ \E d \in Slots : \E iu \in IUs(d) : Deliver(d, iu, "ok", MaxBadStatus)

SpecTags == Init /\ [][NextTags]_vars

(***************************************************************************)
(* One call of step() can handle several events: the timer, then the       *)
(* socket.  The wait loops test their condition between calls only, so an  *)
(* event can be handled in a run whose loop is about to be left: after the *)
(* outcome of the command has been fixed, or after the window has opened.  *)
(***************************************************************************)
\* a wait loop of the pump is about to be left
InTick == pc \in {"start", "wait"} /\ ~CanStep

LateDeliver(d, iu, env) == DeliverIf(InTick, d, iu, env, "intact", MaxBadStatus)

LateSocketClose(d, rc) == SocketCloseIf(InTick, d, rc)

LateTimerExpired == TimerExpiredIf(InTick)

NextTick ==
    \/ Next
    \/ \E d \in Slots : \E iu \in IUs(d), e \in Envs : LateDeliver(d, iu, e)
    \/ \E d \in Slots, rc \in {0, -ECONNRESET} : LateSocketClose(d, rc)
    \/ LateTimerExpired

SpecTick == Init /\ [][NextTick]_vars

(***************************************************************************)
(* The pump under a scheduler that keeps stepping: both wait loops call    *)
(* step() on every turn, so time passes and an expired timer is serviced   *)
(* while a loop waits, and a loop whose condition has become false is left.*)
(***************************************************************************)
LeaveStart == \E e \in Envs : StartDone(e)

FairSpec ==
    /\ Spec
    /\ WF_vars(Tick)
    /\ WF_vars(TimerExpired)
    /\ WF_vars(LeaveStart)
    /\ WF_vars(WaitDone)

(***************************************************************************)
(* Properties.                                                             *)
(***************************************************************************)
\* a run of the pump is in one of its two wait loops
RunWaiting == pc \in {"start", "wait"}

\* SCSI commands whose block data interface is the INT 13 command's
PumpCommands ==
    UNION {{<< d, i >> : i \in {j \in 1..Len(dev[d].cmds) :
                                   dev[d].cmds[j].block = "pump"}} : d \in Slots}

\* C1: every run of the command pump ends: under a scheduler that keeps
\* stepping and services the expired timer, a run that is waiting (for the
\* window or for its command) returns to its caller.
C1_RunEnds == RunWaiting ~> (pc = "ret")

\* a run that waited until its timer expired has returned to its caller
C1_Witness ==
    /\ pc = "ret"
    /\ out.run = "ended"
    /\ out.act = "WaitDone"
    /\ out.rc = -ETIMEDOUT

CommandWindow == Int13Window(World("", "ok"), command.int13)

\* C3: a run that leaves the wait loop of int13_command_start() with the
\* window still zero returns -ETIMEDOUT without a command having been
\* issued; the command is closed with -ETIMEDOUT only by the timer, when
\* INT13_COMMAND_TIMEOUT seconds have passed since the start of the run; and
\* int13() stores the failure of a call whose run timed out as the drive's
\* last status.
C3_Step ==
    /\ (pc = "start" /\ pc' # "start" /\ IsZero(CommandWindow))
          => /\ out'.run = "ended"
             /\ out'.rc = -ETIMEDOUT
             /\ out'.sent = << >>
             /\ out'.done = << >>
             /\ dev' = dev
    /\ (out'.outcome # << >> /\ out'.outcome[1] = -ETIMEDOUT)
          => /\ out'.act = "TimerExpired"
             /\ command.timer
             /\ elapsed >= INT13_COMMAND_TIMEOUT
    /\ (pc = "ret" /\ call.kind = "int13" /\ call.rc = -ETIMEDOUT)
          => /\ pc' = "idle"
             /\ drv'[call.d].last_status =
                    (IF call.phase = "capacity" THEN -INT13_STATUS_RESET_FAILED
                     ELSE -INT13_STATUS_READ_ERROR)
             /\ out'.status = << drv'[call.d].last_status >>

C3_NoWindowTimesOut == [][C3_Step]_vars

\* int13() has stored the status of a call whose run timed out waiting for
\* the window of a session that never logged in
C3_Witness ==
    /\ out.act = "Return"
    /\ out.status = << -INT13_STATUS_RESET_FAILED >>
    /\ \E d \in Slots :
          /\ drv[d].used /\ drv[d].last_status = -INT13_STATUS_RESET_FAILED
          /\ dev[d].socket /\ ~dev[d].accepted

\* the last action delivered a full-length RSP IU that named a listed command
RspHandled ==
    /\ out.act = "Deliver"
    /\ out.iu.type = "RSP" /\ out.iu.len = "full"
    /\ out.rc = 0

\* CMD IUs the last action sent
CmdsSent == SelectSeq(out.sent, LAMBDA m : m.type = "CMD")

\* errors of issuing a command that are not the target's
IssueErrors == {-ENOMEM, -EPIPE}

\* C4: a SCSI command the target answers with a status other than GOOD is
\* issued again, SCSICMD_MAX_RETRIES times in all: it completes with -EIO
\* only at its 11th failing answer (12th issue when it changed to the (16)
\* form on the way), and before that a failing answer surfaces nothing
\* unless issuing the command again fails; an answer with status GOOD
\* completes the command with success (or issues READ CAPACITY (16)).
C4_RetryCeiling ==
    RspHandled =>
        /\ \A i \in 1..Len(out.done) :
              out.done[i].rc = -EIO
                 => /\ out.iu.status # 0
                    /\ out.done[i].retries = SCSICMD_MAX_RETRIES + 1
                    /\ out.done[i].attempts = SCSICMD_MAX_RETRIES + 1
                                              + (IF out.done[i].use16 THEN 1 ELSE 0)
        /\ out.iu.status # 0 =>
              \/ out.done = << >> /\ Len(CmdsSent) = 1
              \/ /\ Len(out.done) = 1 /\ CmdsSent = << >>
                 /\ out.done[1].rc \in IssueErrors \cup {-EIO}
                 /\ out.done[1].rc # -EIO
                       => out.done[1].retries <= SCSICMD_MAX_RETRIES
        /\ out.iu.status = 0 =>
              \/ Len(out.done) = 1 /\ out.done[1].rc = 0 /\ CmdsSent = << >>
              \/ /\ out.done = << >> /\ Len(CmdsSent) = 1
                 /\ CmdsSent[1].cdb.op = "READ_CAPACITY" /\ CmdsSent[1].cdb.form = 16
              \/ /\ Len(out.done) = 1 /\ CmdsSent = << >>
                 /\ out.done[1].type = "READ_CAPACITY" /\ out.done[1].use16
                 /\ out.done[1].rc \in IssueErrors

\* the 11th failing answer to a client's command has completed it with -EIO
C4_Witness ==
    /\ RspHandled
    /\ out.iu.status # 0
    /\ Len(out.done) = 1
    /\ out.done[1].rc = -EIO
    /\ out.done[1].owner = "client"
    /\ out.done[1].attempts = 11

\* C5: READ CAPACITY is first issued in its (10) form; the (16) form is
\* issued when, and only when, the answer to the (10) form reported the LBA
\* 0xFFFFFFFF, and then no capacity is reported for that answer; the
\* capacity reported is the LBA of the answer plus one (in 64 bits for the
\* (16) form) with an unbounded max_count.
C5_ReadCapacity ==
    LET data == out.iu.data
        wraps == Trunc(data.lba, 2) = Ones(2)
        cap16 == SelectSeq(CmdsSent, LAMBDA m : m.cdb.op = "READ_CAPACITY"
                                                /\ m.cdb.form = 16)
    IN /\ out.act \in {"StartDone", "ClientCommand"} => cap16 = << >>
       /\ cap16 # << >> =>
             /\ out.act = "Deliver" /\ out.iu.type = "RSP"
             /\ out.iu.status # 0 \/ (data.form = 10 /\ wraps)
       /\ (RspHandled /\ out.iu.status = 0 /\ data.form = 10 /\ wraps) =>
             /\ out.capacity = << >>
             /\ Len(cap16) = 1 \/ (Len(out.done) = 1 /\ out.done[1].rc \in IssueErrors)
       /\ (RspHandled /\ out.iu.status = 0 /\ data.form = 10 /\ ~wraps) =>
             /\ CmdsSent = << >>
             /\ Len(out.capacity) = 1
             /\ out.capacity[1].capacity =
                    [blocks |-> Zext(AddW(Trunc(data.lba, 2), U32(1), 0), 4),
                     blksize |-> data.blksize, max_count |-> MaxCountUnbounded]
       /\ (RspHandled /\ out.iu.status = 0 /\ data.form = 16) =>
             /\ CmdsSent = << >>
             /\ Len(out.capacity) = 1
             /\ out.capacity[1].capacity =
                    [blocks |-> AddW(data.lba, U64(1), 0),
                     blksize |-> data.blksize, max_count |-> MaxCountUnbounded]
       /\ \A i \in 1..Len(out.capacity) :
             /\ ~IsZero(out.capacity[i].capacity.blocks)
             /\ out.capacity[i].capacity.max_count = MaxCountUnbounded

\* the answer to READ CAPACITY (16) has given the drive 2^32 blocks
C5_Witness ==
    /\ RspHandled
    /\ out.iu.data.form = 16
    /\ Len(out.capacity) = 1
    /\ out.capacity[1].capacity.blocks = << 0, 0, 1, 0 >>
    /\ drv[out.d].capacity.blocks = << 0, 0, 1, 0 >>

\* the step delivers a full-length RSP IU on session d whose tag no listed
\* command has
StaleRsp(d) ==
    /\ out'.act = "Deliver" /\ out'.d = d
    /\ out'.iu.type = "RSP" /\ out'.iu.len = "full"
    /\ SrpFindTag(dev[d].commands, out'.iu.tag) = 0

\* C6 as stated: an RSP IU whose tag no listed command has is reported with
\* -ENOENT and the session is not closed: it stays logged in and open, and
\* its listed commands are left as they were.
C6_StaleStep ==
    \A d \in Slots :
        StaleRsp(d) => /\ out'.rc = -ENOENT
                       /\ out'.closes = << >>
                       /\ dev'[d].socket
                       /\ dev'[d].commands = dev[d].commands
                       /\ dev'[d].logged_in = dev[d].logged_in

C6_ClosesStep ==
    \A d \in Slots :
        StaleRsp(d) => /\ out'.rc = -ENOENT
                       /\ out'.closes # << >>
                       /\ out'.closes[1] = [d |-> d, rc |-> -ENOENT]
                       /\ ~dev'[d].socket
                       /\ dev'[d].close_rc = << -ENOENT >>
                       /\ dev'[d].commands = << >>
                       /\ dev'[d].cmds = << >>
                       /\ Len(out'.done) = Len(dev[d].cmds)
                       /\ \A i \in 1..Len(out'.done) : out'.done[i].rc = -ENOENT
                       /\ ~dev[d].client => drv'[d].block_rc = -ENOENT

C7_BusyStep ==
    \A d \in Slots :
        (/\ out'.act = "ClientCommand" /\ out'.d = d /\ out'.env = "ok"
         /\ dev[d].socket /\ ~dev[d].logged_in)
           => /\ out'.rc = -EBUSY
              /\ out'.sent = << >>
              /\ dev'[d].commands = dev[d].commands
              /\ dev'[d].cmds = dev[d].cmds
              /\ dev'[d].socket

C7_BusyBeforeLogin == [][C7_BusyStep]_vars

\* a client's command has failed with -EBUSY on a session still logging in
C7_Witness ==
    /\ out.act = "ClientCommand"
    /\ out.rc = -EBUSY
    /\ dev[out.d].socket /\ ~dev[out.d].logged_in
    /\ dev[out.d].commands = << >>

\* C8: the window of a session is 0 as long as it has accepted no
\* LOGIN_RSP and unbounded ever after; accepting a LOGIN_RSP raises
\* xfer_window_changed() upstream, and nothing else does; no CMD IU is sent
\* on, and the pump waits for no command of, a session that has not
\* accepted a LOGIN_RSP.
C8_Window ==
    /\ \A d \in Slots :
          SrpdevWindow(dev[d]) = IF dev[d].accepted THEN WindowUnbounded ELSE U32(0)
    /\ out.notify <=> /\ out.act = "Deliver"
                      /\ out.iu.type = "LOGIN_RSP" /\ out.iu.len = "full"
    /\ out.notify => out.rc = 0 /\ dev[out.d].accepted
    /\ \A i \in 1..Len(CmdsSent) : dev[CmdsSent[i].d].accepted
    /\ pc = "wait" => dev[command.int13].accepted

\* the run waiting for the window of a session has seen it accept a
\* LOGIN_RSP
C8_Witness ==
    /\ out.act = "Deliver"
    /\ out.notify
    /\ pc = "start"
    /\ command.int13 = out.d
    /\ ~IsZero(CommandWindow)

\* C9: a full-length LOGIN_REJ closes the session with -EPERM, which is the
\* reason the INT 13 drive records for its block device and the result of
\* the run waiting on the device; a session closed with -EPERM does not
\* change its login state.
C9_RejStep ==
    \A d \in Slots :
        /\ (/\ out'.act = "Deliver" /\ out'.d = d
            /\ out'.iu.type = "LOGIN_REJ" /\ out'.iu.len = "full")
              => /\ out'.rc = -EPERM
                 /\ out'.closes # << >>
                 /\ out'.closes[1] = [d |-> d, rc |-> -EPERM]
                 /\ ~dev'[d].socket
                 /\ dev'[d].close_rc = << -EPERM >>
                 /\ dev'[d].logged_in = dev[d].logged_in
                 /\ drv'[d].block_rc = -EPERM
                 /\ (pc = "start" /\ command.int13 = d)
                       => /\ command'.rc = -EINPROGRESS
                          /\ ~dev'[d].block
                 /\ (pc = "wait" /\ command.int13 = d) => command'.rc = -EPERM
        /\ (dev[d].close_rc = << -EPERM >> /\ dev'[d].close_rc = << -EPERM >>)
              => dev'[d].logged_in = dev[d].logged_in
        /\ (/\ pc = "start" /\ pc' # "start" /\ command.int13 = d
            /\ command.rc = -EINPROGRESS /\ drv[d].block_rc = -EPERM)
              => out'.run = "ended" /\ out'.rc = -EPERM

C9_LoginRejFatal == [][C9_RejStep]_vars

\* the run that waited for the window of a rejected session has returned
\* -EPERM
C9_Witness ==
    /\ out.act = "StartDone"
    /\ out.run = "ended"
    /\ out.rc = -EPERM
    /\ \E d \in Slots : dev[d].close_rc = << -EPERM >> /\ ~dev[d].accepted

\* C10: an IU is delivered to an open session only; an IU shorter than the
\* common header or than the layout of its type is reported with -EINVAL,
\* an IU of another type with -ENOTSUP; and an error the handler reports
\* closes the session with that error, while success closes nothing.
C10_DeliverStep ==
    out'.act = "Deliver" =>
        /\ dev[out'.d].socket
        /\ dev[out'.d].close_rc = << >>
        /\ out'.iu.len \in {"short", "hdr"} => out'.rc = -EINVAL
        /\ (out'.iu.type = "OTHER" /\ out'.iu.len = "full") => out'.rc = -ENOTSUP
        /\ out'.rc # 0 =>
              /\ out'.closes # << >>
              /\ \A i \in 1..Len(out'.closes) :
                    out'.closes[i] = [d |-> out'.d, rc |-> out'.rc]
              /\ ~dev'[out'.d].socket
              /\ dev'[out'.d].close_rc = << out'.rc >>
        /\ out'.rc = 0 => out'.closes = << >> /\ dev'[out'.d].socket

C10_HandlerErrorCloses == [][C10_DeliverStep]_vars

\* an IU of an unrecognised type has closed a session that was logged in
C10_Witness ==
    /\ out.act = "Deliver"
    /\ out.iu.type = "OTHER" /\ out.iu.len = "full"
    /\ out.rc = -ENOTSUP
    /\ dev[out.d].close_rc = << -ENOTSUP >>
    /\ dev[out.d].accepted

\* SCSI commands of a device that are still to complete
Outstanding(d) == {dev[d].cmds[i].id : i \in 1..Len(dev[d].cmds)}

\* the entries of out.done, as a set
DoneSet(o) == {o.done[i] : i \in 1..Len(o.done)}

\* C11: when a session is closed with a reason rc, every command outstanding
\* at that moment completes with that same reason and is not issued again
\* (its retry count stays what it was and no CMD IU is sent), the waiting
\* pump command gets that reason as its outcome, and afterwards the
\* session's command list and the SCSI device's command list are empty.
C11_CloseStep ==
    out'.closes # << >> =>
        LET d == out'.closes[1].d
            rc == out'.closes[1].rc
        IN /\ \A i \in 1..Len(dev[d].cmds) :
                 \E x \in DoneSet(out') :
                    /\ x.id = dev[d].cmds[i].id
                    /\ x.rc = rc
                    /\ x.retries = dev[d].cmds[i].retries
           /\ \A x \in DoneSet(out') : x.rc = rc
           /\ SelectSeq(out'.sent, LAMBDA m : m.type = "CMD") = << >>
           /\ (command.int13 = d /\ command.cmd # 0) => out'.outcome = << rc >>
           /\ dev'[d].commands = << >>
           /\ dev'[d].cmds = << >>

C11_ClosePropagates == [][C11_CloseStep]_vars

\* a client has shut its control interface with -ECONNRESET while a command
\* was outstanding, and the command has completed with another reason
C11_Retried ==
    /\ out.act = "ClientClose"
    /\ out.closes = << [d |-> out.d, rc |-> -ECONNRESET] >>
    /\ \E x \in DoneSet(out) : x.rc = -EOPNOTSUPP /\ x.retries = 1

\* tags of the commands a session has listed
Tags(d) == {dev[d].commands[i].tag : i \in 1..Len(dev[d].commands)}

\* C12: the tags of the commands in one session's list are pairwise
\* distinct in every reachable state, also when the 16-bit counter has
\* wrapped around while older commands are listed, so that a response
\* names at most one listed command and completes at most one command.
C12_TagsDistinct ==
    /\ \A d \in Slots :
          /\ \A i, j \in 1..Len(dev[d].commands) :
                i # j => dev[d].commands[i].tag # dev[d].commands[j].tag
          /\ \A t \in Tags(d) \cup (IF out.iu.type = "RSP" THEN {out.iu.tag} ELSE {}) :
                Cardinality({i \in 1..Len(dev[d].commands) :
                                dev[d].commands[i].tag = t}) <= 1
          /\ Tags(d) \subseteq 0..(TagSpace - 1)
    /\ RspHandled => Len(out.done) <= 1

\* the counter has wrapped around and come back to a tag still listed: the
\* command issued then has skipped it
C12_Witness ==
    /\ out.act = "ClientCommand"
    /\ \E d \in Slots :
          /\ Len(dev[d].commands) = 2
          /\ dev[d].commands[2].tag = 2
          /\ dev[d].commands[1].tag = 3
          /\ tag_idx = 3
          /\ ncalls = 4

\* the tag srp_new_tag() would hand out to session d now
NextTag(d, idx) == SrpNewTag(dev[d].commands, idx).tag

\* C13 as claimed: the tag counter belongs to the session: what another SRP
\* device allocates leaves the tag a session hands out next unchanged.
C13_OtherStep ==
    out'.act = "OtherSessionTags" =>
        \A d \in Slots : NextTag(d, tag_idx') = NextTag(d, tag_idx)

C13_SharedStep ==
    /\ out'.act = "OtherSessionTags" =>
          /\ \E n \in TagBursts : tag_idx' = (tag_idx + n) % TagSpace
          /\ \A d \in Slots : dev'[d].commands = dev[d].commands
    /\ \A i \in 1..Len(out'.sent) :
          LET d == out'.sent[i].d
              \* the command a response answers has left the list before
              \* it is issued again
              listed == SelectSeq(dev[d].commands,
                                  LAMBDA x : out'.act = "Deliver" => x.tag # out'.iu.tag)
              used == {listed[j].tag : j \in 1..Len(listed)}
              tag == out'.sent[i].tag
          IN /\ tag \in 0..(TagSpace - 1) /\ tag \notin used
             /\ \E k \in 1..(Len(listed) + 1) :
                   /\ tag = (tag_idx + k) % TagSpace
                   /\ \A j \in 1..(k - 1) : (tag_idx + j) % TagSpace \in used
             /\ tag_idx' = tag
    /\ out'.rc # -EADDRINUSE
    /\ \A i \in 1..Len(out'.done) : out'.done[i].rc # -EADDRINUSE

Num(a) == a[1] + a[2] * Limb

\* an extended read or write is in progress
InRw(c) == c.kind = "int13" /\ c.phase = "rw"

\* the fragment int13_rw() makes when `done` blocks of the range c.addr
\* have been moved
FragmentAt(c, done) ==
    LET max == Num(drv[c.d].capacity.max_count)
        blksize == drv[c.d].capacity.blksize
        remaining == Num(c.addr.count) - done
        count == IF remaining < max THEN remaining ELSE max
    IN [type |-> c.type, lba |-> U64(Num(c.addr.lba) + done), count |-> U32(count),
        buffer |-> U32(done * blksize), len |-> U32(count * blksize)]

\* C14: a read or write of count blocks at LBA B on a drive whose capacity
\* has the transfer limit M is issued as the fragments min(remaining, M)
\* at B, B + M, B + 2M, ..., with the buffer advanced by the fragment count
\* times the block size after each; the call reports success only when
\* the last fragment, which ends the range, has completed with success.
C14_Step ==
    LET max == Num(drv[call'.d].capacity.max_count)
        done == Num(call'.addr.count) - Num(call'.count)
    IN /\ InRw(call') =>
             /\ done >= 0 /\ done % max = 0
             /\ Num(call'.count) > 0
             /\ call'.lba = U64(Num(call'.addr.lba) + done)
             /\ call'.buffer = U32(done * drv[call'.d].capacity.blksize)
             /\ call'.frag = FragmentAt(call', done).count
             /\ out'.issue # << >> => out'.issue = << FragmentAt(call', done) >>
             /\ InRw(call) => call'.addr = call.addr /\ call'.type = call.type
       /\ (InRw(call) /\ InRw(call') /\ call'.count # call.count) =>
             /\ out'.act = "Return" /\ call.rc = 0
             /\ Num(call'.count) = Num(call.count) - Num(call.frag)
       /\ (InRw(call) /\ out'.status = << 0 >>) =>
             /\ out'.act = "Return" /\ call.rc = 0
             /\ call.frag = call.count

C14_Fragments == [][C14_Step]_vars

\* the third fragment of a read of RwBlocks blocks with a limit of
\* RwMaxCount has been issued: the one block left, behind the two
\* fragments before it
C14_Witness ==
    /\ InRw(call)
    /\ call.addr = [lba |-> U64(RwStart), count |-> U32(RwBlocks)]
    /\ drv[call.d].capacity.max_count = U32(RwMaxCount)
    /\ out.issue = << [type |-> "READ", lba |-> U64(RwStart + 2 * RwMaxCount),
                       count |-> U32(RwBlocks - 2 * RwMaxCount),
                       buffer |-> U32(2 * RwMaxCount * INT13_BLKSIZE),
                       len |-> U32((RwBlocks - 2 * RwMaxCount) * INT13_BLKSIZE)] >>

\* C15: within one read or write, the run for the next fragment is started
\* only when the run for the fragment before it has returned success, and
\* a fragment is issued only while no command of an earlier fragment is
\* outstanding; a run returns what made it fail (the error of the window
\* wait, of issuing the command, of its completion, or the timeout); and
\* when a run has returned an error int13_rw() returns: the call ends with
\* a read error status and no fragment is issued and no run started after.
C15_Step ==
    /\ (InRw(call') /\ out'.run = "started" /\ call'.count # call'.addr.count) =>
          /\ InRw(call) /\ pc = "ret" /\ call.rc = 0
          /\ out'.act = "Return"
    /\ out'.issue # << >> =>
          /\ out'.act = "StartDone" /\ pc = "start"
          /\ PumpCommands = {} /\ command.cmd = 0
    /\ (InRw(call) /\ pc = "start" /\ pc' = "ret") =>
          /\ call'.rc = out'.rc /\ call'.rc # 0
          /\ call'.rc \in {command.rc, drv[call.d].block_rc, -ENOMEM, -EPIPE,
                            -EOPNOTSUPP}
    /\ (InRw(call) /\ pc = "wait" /\ pc' = "ret") =>
          /\ call'.rc = command.rc /\ command.rc # -EINPROGRESS
    /\ (InRw(call) /\ out'.outcome # << >>) =>
          /\ command'.rc = out'.outcome[Len(out'.outcome)]
          /\ out'.outcome[1] = 0 =>
                \E x \in DoneSet(out') : x.owner = "pump" /\ x.rc = 0
    /\ (InRw(call) /\ pc = "ret" /\ call.rc # 0) =>
          /\ call' = CallNone /\ pc' = "idle"
          /\ out'.status = << -INT13_STATUS_READ_ERROR >>
          /\ out'.issue = << >> /\ out'.sent = << >> /\ out'.run = "none"

C15_InOrder == [][C15_Step]_vars

\* the run for a later fragment of a read has timed out
C15_Witness ==
    /\ InRw(call) /\ pc = "ret"
    /\ call.rc = -ETIMEDOUT
    /\ call.count # call.addr.count
    /\ out.act = "WaitDone"

\* the SCSI command a CMD IU was sent for
CmdOf(m) ==
    LET cmds == dev[m.d].cmds
    IN cmds[FirstOf({i \in 1..Len(cmds) : cmds[i].tag = m.tag})]

\* READ and WRITE commands the last action of the client sent
RwSent ==
    IF out.act # "ClientCommand" THEN {}
    ELSE {CmdsSent[i] : i \in 1..Len(CmdsSent)}

\* lba + count, as a number of five limbs (no carry is lost)
EndBlock(scsicmd) == AddW(Zext(scsicmd.lba, 5), Zext(scsicmd.count, 5), 0)

\* C16: a READ or WRITE is built in its 10-byte form exactly when
\* lba + count <= 2^32 - 1, and in its 16-byte form otherwise, with the
\* same threshold for both.
C16_Threshold ==
    \A m \in RwSent :
        /\ m.cdb.op = CmdOf(m).type
        /\ m.cdb.form \in {10, 16}
        /\ m.cdb.form = 10 <=> ~LessW(Zext(Ones(2), 5), EndBlock(CmdOf(m)))

\* C16, as the code computes it: the sum is taken modulo 2^64
C16_ThresholdWrapped ==
    \A m \in RwSent :
        /\ m.cdb.op = CmdOf(m).type
        /\ m.cdb.form \in {10, 16}
        /\ m.cdb.form = 10 <=>
               ~LessW(Zext(Ones(2), 5), Zext(Trunc(EndBlock(CmdOf(m)), 4), 5))

\* a read of the last block address, 2^64 - 1, has been sent as a READ (10)
\* of the block 2^32 - 1
C16_Wrapped ==
    \E m \in RwSent :
        /\ CmdOf(m).type = "READ"
        /\ CmdOf(m).lba = Ones(4) /\ CmdOf(m).count = U32(1)
        /\ m.cdb = [op |-> "READ", form |-> 10, lba |-> Ones(2), len |-> << 1 >>]

\* the numbers of the registered drives, in the order of the list
RegisteredDrives == [i \in 1..Len(int13s) |-> drv[int13s[i]].drive]

\* C17: after any sequence of registrations and unregistrations, with any
\* requested drive number and any firmware drive count, every registered
\* drive's number lies in 0x80..0xFF and no two registered drives have the
\* same number.
C17_RangeAndUnique ==
    /\ \A i \in 1..Len(int13s) : RegisteredDrives[i] \in 128..255
    /\ \A i, j \in 1..Len(int13s) :
           RegisteredDrives[i] = RegisteredDrives[j] => i = j

\* C17, what the code keeps: bit 7 set, and no number twice
C17_Bit7AndUnique ==
    /\ \A i \in 1..Len(int13s) : RegisteredDrives[i] % 256 >= 128
    /\ \A i, j \in 1..Len(int13s) :
           RegisteredDrives[i] = RegisteredDrives[j] => i = j

\* a drive asked for as 0x100 is registered as 0x180, next to another drive
C17_OutOfRange ==
    /\ pc = "idle" /\ Len(int13s) = 2
    /\ \E i \in 1..2 : RegisteredDrives[i] = 384

\* the number int13_hook() assigns to a request, given the firmware's drive
\* count: bit 7 is set in the request, or in the count for a natural drive
Assigned(req, count) ==
    LET x == IF req = INT13_USE_NATURAL_DRIVE THEN count ELSE req
    IN (x \div 256) * 256 + 128 + (x % 128)

\* C18: a registration whose assigned number is that of a registered drive
\* is rejected with -EADDRINUSE; the registry, the hooked vector and the
\* firmware's drive count are as before, and no block device is opened.
C18_Step ==
    (/\ out'.act = "Hook"
     /\ \E i \in 1..Len(int13s) :
            RegisteredDrives[i] = Assigned(out'.req[1], bda))
    => /\ out'.hook = << -EADDRINUSE >>
       /\ int13s' = int13s /\ drv' = drv
       /\ vector' = vector /\ out'.vec = << >>
       /\ bda' = bda
       /\ dev' = dev /\ out'.sent = << >> /\ pc' = "idle"

C18_Rejected == [][C18_Step]_vars

\* a natural drive has been refused because the firmware had put its count
\* back to the one under which a drive is registered
C18_Witness ==
    /\ out.act = "Hook" /\ out.req = << INT13_USE_NATURAL_DRIVE >>
    /\ out.hook = << -EADDRINUSE >>
    /\ int13s # << >> /\ vector

\* the list without the drives numbered n
Without(list, n) == SelectSeq(list, LAMBDA x : drv[x].drive # n)

\* C19: the INT 13 vector is hooked exactly while a drive is registered.  It
\* is hooked once, by the registration that makes the list non-empty, and
\* not hooked again for further drives; a failed registration and the
\* unregistration of an unknown drive leave it and the list alone; it is
\* unhooked by the unregistration that empties the list.
C19_Step ==
    /\ vector' <=> int13s' # << >>
    /\ out'.vec = IF int13s = << >> /\ int13s' # << >> THEN << "hook" >>
                  ELSE IF int13s # << >> /\ int13s' = << >> THEN << "unhook" >>
                  ELSE << >>
    /\ (out'.hook # << >> /\ out'.hook[1] < 0) => int13s' = int13s
    /\ (out'.hook # << >> /\ out'.hook[1] >= 0) =>
           /\ Len(int13s') = Len(int13s) + 1
           /\ \E i \in 1..Len(int13s') : drv'[int13s'[i]].drive = out'.hook[1]
    /\ out'.act = "Unhook" => int13s' = Without(int13s, out'.req[1])

C19_Second ==
    /\ out.hook # << >> /\ Len(int13s) = 2 /\ out.vec = << >> /\ vector

\* the firmware's drive count covers every registered drive
Covered == \A i \in 1..Len(int13s) : bda >= (RegisteredDrives[i] % 128) + 1

\* C20: after every registration and after every INT 13 call that our
\* handler was entered for, the firmware's drive count is at least
\* (D & 0x7F) + 1 for every registered drive D, whatever the firmware wrote
\* to it between the calls.
C20_Covered ==
    (\/ out.act = "Int13Call"
     \/ out.hook # << >> /\ out.hook[1] >= 0) => Covered

\* an INT 13 call found the count at 0 with drives 0x80 and 0x81 registered,
\* and put it back to 2
C20_Witness ==
    /\ out.act = "Int13Call" /\ out.entry = << 0 >>
    /\ Len(int13s) = 2 /\ \E i \in 1..2 : RegisteredDrives[i] = 129
    /\ bda = 2

\* between the calls the count need not cover the drives
C20_Uncovered == pc = "idle" /\ int13s # << >> /\ ~Covered

\* the natural numbers of the registered drives, in the order of the list
NaturalDrives == [i \in 1..Len(int13s) |-> drv[int13s[i]].natural_drive]

\* the call of this step names no registered drive by its number, and one
\* at least by its natural number
NaturalOnly(dl) ==
    /\ \A i \in 1..Len(int13s) : RegisteredDrives[i] # dl
    /\ \E i \in 1..Len(int13s) : NaturalDrives[i] = dl

\* the call is chained to the previous handler and nothing of ours is done
Chained ==
    /\ out'.regs # << >> /\ ~out'.regs[1].of
    /\ out'.status = << >> /\ out'.sent = << >> /\ pc' = "idle"
    /\ \A d \in Slots : drv'[d].last_status = drv[d].last_status

\* C21: a call whose drive number is no registered drive's assigned number
\* but is a registered drive's natural number has DL rewritten to that
\* drive's assigned number, returns with the overflow flag clear,
\* dispatches no function and changes no drive's last_status.
C21_Step ==
    (out'.act = "Int13Call" /\ NaturalOnly(out'.req[1]))
    => /\ Chained
       /\ \E i \in 1..Len(int13s) :
              /\ NaturalDrives[i] = out'.req[1]
              /\ out'.remap = << RegisteredDrives[i] >>

C21_Remapped == [][C21_Step]_vars

\* C21, as the code does it: DL receives the low byte of the number
C21_LowByteStep ==
    (out'.act = "Int13Call" /\ NaturalOnly(out'.req[1]))
    => /\ Chained
       /\ \E i \in 1..Len(int13s) :
              /\ NaturalDrives[i] = out'.req[1]
              /\ out'.remap = << RegisteredDrives[i] % 256 >>

C21_RemappedLowByte == [][C21_LowByteStep]_vars

\* a call for drive 0x80, the natural number of the drive registered as
\* 0x180, has left with DL = 0x80
C21_Witness ==
    /\ out.act = "Int13Call" /\ out.req = << 128 >> /\ out.remap = << 128 >>
    /\ \E i \in 1..Len(int13s) :
           RegisteredDrives[i] = 384 /\ NaturalDrives[i] = 128
    /\ \A i \in 1..Len(int13s) : RegisteredDrives[i] # 128

\* a call for drive 0x80, the natural number of the drive registered as
\* 0x81, has left with DL = 0x81
C21_Swapped ==
    /\ out.act = "Int13Call" /\ out.req = << 128 >> /\ out.remap = << 129 >>

C22_DiskType ==
    /\ out.status = << INT13_DISK_TYPE_HDD >>
    /\ out.regs = << [ah |-> 3, cf |-> FALSE, of |-> TRUE] >>

\* the call of the last step stored a status that is not an error, on a
\* drive whose last_status was an error
SuccessAfterFailure ==
    /\ out.status # << >> /\ out.status[1] >= 0
    /\ out.last[1].was < 0 /\ out.last[1].func # INT13_GET_LAST_STATUS

\* C23: last_status is never cleared by a successful call: after a failed
\* call and a successful one on the same drive it is still the failure
\* status, which function 0x01 reports.
C23_NeverCleared ==
    SuccessAfterFailure => drv[out.last[1].d].last_status = out.last[1].was

\* C23, amended: last_status is the status of the most recent call the drive
\* handled, success or failure; function 0x01 returns the stored value (and
\* stores it again), and a call handled by one drive leaves the last_status
\* of the others alone.
C23_Step ==
    out'.status # << >> =>
        /\ drv'[out'.last[1].d].last_status = out'.status[1]
        /\ out'.last[1].was = drv[out'.last[1].d].last_status
        /\ out'.last[1].func = INT13_GET_LAST_STATUS =>
               out'.status[1] = drv[out'.last[1].d].last_status
        /\ \A d \in Slots \ {out'.last[1].d} : drv'[d].last_status = drv[d].last_status

C23_MostRecent == [][C23_Step]_vars

\* a successful call has replaced a failure status
C23_Witness == SuccessAfterFailure /\ drv[out.last[1].d].last_status = out.status[1]

\* function 0x01 has reported a failure status
C23_Reported ==
    /\ out.status # << >> /\ out.last[1].func = INT13_GET_LAST_STATUS
    /\ out.status[1] < 0 /\ out.regs[1].cf

\* the address is one of the drive's geometry
ValidChs(int13, a) ==
    /\ a.cylinder < int13.cylinders /\ a.cylinder < 1024
    /\ a.head < int13.heads
    /\ a.sector >= 1 /\ a.sector <= int13.sectors_per_track

\* the cylinder, head and sector of block n
LbaToChs(int13, n) ==
    [cylinder |-> n \div (int13.heads * int13.sectors_per_track),
     head |-> (n \div int13.sectors_per_track) % int13.heads,
     sector |-> (n % int13.sectors_per_track) + 1]

\* C24: for every geometry of a registered drive and every valid address
\* (cylinder, head, sector), the block address computed from it converts
\* back to the same cylinder, head and sector (so that two valid addresses
\* never share a block).
C24_RoundTrip ==
    (out.chs # << >> /\ ValidChs(drv[out.d], out.chs[1]))
    => /\ IsZero(SubSeq(out.chs[1].lba, 3, 4))
       /\ LbaToChs(drv[out.d], Num(out.chs[1].lba)) =
              [cylinder |-> out.chs[1].cylinder, head |-> out.chs[1].head,
               sector |-> out.chs[1].sector]

\* the last head and the last sector of a cylinder of 256 heads of 63
\* sectors have been asked for
C24_Witness ==
    /\ out.chs # << >> /\ drv[out.d].heads = 256
    /\ out.chs[1].head = 255 /\ out.chs[1].sector = 63
    /\ ValidChs(drv[out.d], out.chs[1])
    /\ pc = "start"

\* C25: a read or write by cylinder, head and sector whose address is not
\* within cylinder < cylinders, head < heads, 1 <= sector <=
\* sectors_per_track returns the status INVALID and issues no command to
\* the block device.
C25_Step ==
    (out'.chs # << >> /\ ~ValidChs(drv[out'.d], out'.chs[1]))
    => /\ out'.status = << -INT13_STATUS_INVALID >>
       /\ pc' = "idle" /\ call' = CallNone
       /\ command' = command /\ dev' = dev

C25_InvalidRejected == [][C25_Step]_vars

\* sector 0 of cylinder 0, head 0 has been sent to the target as a READ of
\* block 2^32 - 1
C25_Issued ==
    /\ out.act = "StartDone" /\ out.issue # << >>
    /\ out.issue[1].type = "READ" /\ out.issue[1].lba = Zext(Ones(2), 4)
    /\ out.sent # << >>
    /\ "sector >= 1 && sector <= int13->sectors_per_track" \in failed

\* cylinders, heads and sectors per track of a drive
Geometry(int13) == << int13.cylinders, int13.heads, int13.sectors_per_track >>

\* C26: a reset of a healthy drive returns success, having reopened the
\* block device and read its capacity again, and leaves the drive's
\* capacity (blocks, block size, max count) and geometry as they were; so
\* does the reset after it.
C26_Step ==
    /\ drv'[1].capacity = drv[1].capacity
    /\ Geometry(drv'[1]) = Geometry(drv[1])
    /\ out'.act = "Int13Call" =>
           \* the old session is closed and a login is sent on a new one
           /\ out'.closes = << [d |-> 1, rc |-> -ECONNRESET] >>
           /\ Len(out'.sent) = 1 /\ out'.sent[1].type = "LOGIN_REQ"
           /\ ~dev'[1].logged_in /\ dev'[1].block
    /\ out'.status # << >> =>
           \* the run that has ended is the one of READ CAPACITY
           /\ out'.status = << 0 >>
           /\ call.func = INT13_RESET /\ call.phase = "capacity" /\ call.rc = 0
           /\ dev'[1].logged_in /\ drv'[1].block_rc = 0
    /\ out'.capacity # << >> =>
           /\ call.func = INT13_RESET
           /\ out'.capacity[1].capacity = drv'[1].capacity

C26_ResetIdempotent == [][C26_Step]_vars

\* a reset has returned after another reset that had returned
C26_Witness ==
    /\ ncalls >= 2 /\ out.status = << 0 >> /\ out.last[1].func = INT13_RESET
    /\ pc = "idle" /\ dev[1].logged_in

\* the drive that the last step registered
Hooked == drv[CHOOSE d \in Slots : /\ \E i \in 1..Len(int13s) : int13s[i] = d
                                    /\ drv[d].drive = out.hook[1]]

\* the last entry of the table with a type other than 0, 0 if there is none
LastUsed(parts) ==
    IF \E i \in 1..4 : parts[i].type # 0
    THEN CHOOSE i \in 1..4 : /\ parts[i].type # 0
                             /\ \A j \in (i + 1)..4 : parts[j].type = 0
    ELSE 0

\* min ( 1024, blocks / per_cyl ), for a number of blocks of 64 bits of
\* which an unsigned long keeps at most 2^32 - 1
Cylinders(blocks, per_cyl) ==
    IF ~IsZero(SubSeq(blocks, 3, 4)) \/ blocks[2] >= 16384 THEN 1024
    ELSE IF Num(blocks) \div per_cyl > 1024 THEN 1024
    ELSE Num(blocks) \div per_cyl

\* C27: on a drive of 512-byte blocks the geometry is guessed from the
\* partition table: 255 heads and 63 sectors per track, or the end head + 1
\* and the end sector of the last entry whose type is not 0, and
\* min(1024, blocks / (heads * sectors_per_track)) cylinders.  On a drive of
\* another block size no table is read and the geometry is left as it was.
C27_Registered ==
    (out.hook # << >> /\ out.hook[1] >= 0) =>
        IF Hooked.capacity.blksize # INT13_BLKSIZE
        THEN out.parts = << >> /\ Geometry(Hooked) = << 0, 0, 0 >>
        ELSE /\ out.parts # << >> /\ Len(out.parts[1]) = 4
             /\ LET parts == out.parts[1]
                    i == LastUsed(parts)
                    heads == IF i = 0 THEN 255 ELSE parts[i].chs_end[1] + 1
                    sectors == IF i = 0 THEN 63 ELSE parts[i].chs_end[2] % 64
                IN /\ Hooked.heads = heads /\ Hooked.sectors_per_track = sectors
                   /\ heads * sectors # 0 =>
                          Hooked.cylinders =
                              Cylinders(Hooked.capacity.blocks, heads * sectors)

\* during a registration, block 0 is read only from a drive of 512-byte
\* blocks, and it is the only block read
C27_ReadStep ==
    (out'.issue # << >> /\ call.kind = "hook") =>
        /\ drv[call.d].capacity.blksize = INT13_BLKSIZE
        /\ out'.issue[1].type = "READ" /\ IsZero(out'.issue[1].lba)
        /\ out'.issue[1].count = U32(1)

C27_Geometry == []C27_Registered /\ [][C27_ReadStep]_vars

\* the fourth entry has given the geometry, after a used first entry
C27_Witness ==
    /\ out.hook # << >> /\ out.hook[1] >= 0 /\ out.parts # << >>
    /\ out.parts[1][1].type # 0 /\ out.parts[1][4].type # 0
    /\ Geometry(Hooked) = << 1024, 4, 5 >>

\* a drive of 2048-byte blocks has been registered without a geometry
C27_NoGuess ==
    /\ out.hook # << >> /\ out.hook[1] >= 0
    /\ Hooked.capacity.blksize = 2048 /\ Geometry(Hooked) = << 0, 0, 0 >>

\* a used entry with sector 0: the division by heads * sectors_per_track
\* has faulted
C27_Fault == pc = "fault" /\ out.parts # << >>

\* C28: unregistering a drive leaves the BIOS drive count byte, and the
\* value of it that the code remembers, as they were, whichever drive is
\* removed and however many remain.
C28_Step ==
    out'.act = "Unhook" => /\ bda' = bda
                           /\ num_drives' = num_drives

C28_CountKept == [][C28_Step]_vars

\* a drive has been removed while another stays, with a count of two
C28_Witness ==
    /\ out.act = "Unhook" /\ out.d # 0
    /\ Len(int13s) = 1 /\ bda = 2

\* the last drive has been removed and the count still covers it
C28_Last ==
    /\ out.act = "Unhook" /\ out.d # 0
    /\ int13s = << >> /\ bda >= 1

\* the block address and the number of blocks that the fields of a READ or
\* WRITE command descriptor block stand for
CdbDecode(cdb) == [lba |-> Zext(cdb.lba, 4), count |-> Zext(cdb.len, 2)]

\* the fields of the form chosen have the widths of that form
CdbWidths(cdb) ==
    IF cdb.form = 16 THEN Len(cdb.lba) = 4 /\ Len(cdb.len) = 2
    ELSE Len(cdb.lba) = 2 /\ Len(cdb.len) = 1

\* C29: the block address and the transfer length of the command
\* descriptor block built for a READ or WRITE are the address and the count
\* of the request, in the 10-byte and in the 16-byte form.
C29_RoundTrip ==
    \A m \in RwSent :
        /\ CdbWidths(m.cdb)
        /\ CdbDecode(m.cdb).lba = CmdOf(m).lba
        /\ CdbDecode(m.cdb).count = CmdOf(m).count

\* the same for the requests whose last block + 1 is below 2^64 and whose
\* count, in the 10-byte form, is below 2^16
C29_RoundTripInRange ==
    \A m \in RwSent :
        /\ CdbWidths(m.cdb)
        /\ (/\ EndBlock(CmdOf(m))[5] = 0
            /\ m.cdb.form = 10 => CmdOf(m).count[2] = 0)
           => /\ CdbDecode(m.cdb).lba = CmdOf(m).lba
              /\ CdbDecode(m.cdb).count = CmdOf(m).count

\* a WRITE of 65536 blocks at block 0 has been sent as a WRITE (10) of
\* length 0
C29_Truncated ==
    \E m \in RwSent :
        /\ CmdOf(m).type = "WRITE"
        /\ IsZero(CmdOf(m).lba) /\ CmdOf(m).count = U32(Limb)
        /\ m.cdb = [op |-> "WRITE", form |-> 10, lba |-> U32(0), len |-> << 0 >>]

\* a request of 65535 blocks has been sent in the 10-byte form, and one
\* above 2^32 in the 16-byte form, with the fields of the request
C29_Kept ==
    \E m \in RwSent :
        /\ CdbDecode(m.cdb).lba = CmdOf(m).lba
        /\ CdbDecode(m.cdb).count = CmdOf(m).count
        /\ \/ m.cdb.form = 10 /\ CmdOf(m).count = U32(Limb - 1)
           \/ m.cdb.form = 16 /\ CmdOf(m).lba[3] = 1

\* C30: the timer of the command is running exactly when the outcome of the
\* command is "in progress", in every state.
C30_ArmedIffInProgress == command.timer <=> command.rc = -EINPROGRESS

\* the timer runs only while the outcome is "in progress" and the command
\* is bound to a drive; while the command is bound to a drive, the timer
\* runs exactly when the outcome is "in progress"
C30_ArmedWhileBound ==
    /\ command.timer => command.rc = -EINPROGRESS /\ command.int13 # 0
    /\ command.int13 # 0 => (command.timer <=> command.rc = -EINPROGRESS)
    /\ command.int13 # 0 <=> pc \in {"start", "wait"}

\* a run has ended on the latched error of its drive: the timer is
\* stopped and the outcome is still "in progress"
C30_Witness ==
    /\ out.run = "ended" /\ out.outcome = << >> /\ out.sent = << >>
    /\ out.rc # 0 /\ out.rc = drv[call.d].block_rc
    /\ ~command.timer /\ command.int13 = 0 /\ command.rc = -EINPROGRESS

\* the same while the pump is idle after the call has returned
C30_Idle ==
    /\ pc = "idle" /\ int13s # << >>
    /\ ~command.timer /\ command.rc = -EINPROGRESS

\* the command has been closed while a run waits for it: the timer is
\* stopped and the outcome is no longer "in progress"
C30_Closed ==
    /\ pc = "wait" /\ out.outcome # << >>
    /\ ~command.timer /\ command.rc # -EINPROGRESS

\* the retry counts of the SCSI commands of device d, by identity
Retries(devs, d) ==
    [c \in {devs[d].cmds[i].id : i \in 1..Len(devs[d].cmds)} |->
        devs[d].cmds[FirstOf({i \in 1..Len(devs[d].cmds) : devs[d].cmds[i].id = c})].retries]

\* the SCSI command of device d that the SRP command with this tag carries,
\* 0 if there is none
TagOwner(d, tag) ==
    LET i == SrpFindTag(dev[d].commands, tag)
    IN IF i = 0 THEN 0 ELSE dev[d].commands[i].scsi

\* C31: the retry counter of a SCSI command never exceeds
\* SCSICMD_MAX_RETRIES, neither while the command is outstanding nor when
\* it is completed by the failure that exhausts its retries.
C31_AtMostMax ==
    /\ \A d \in Slots : \A i \in 1..Len(dev[d].cmds) :
           dev[d].cmds[i].retries <= SCSICMD_MAX_RETRIES
    /\ \A x \in DoneSet(out) : x.retries <= SCSICMD_MAX_RETRIES

\* the counter of an outstanding command is at most SCSICMD_MAX_RETRIES and
\* is the number of times the command has been issued again; a command is
\* completed with a counter of SCSICMD_MAX_RETRIES + 1 exactly when a
\* failing answer has found the counter at SCSICMD_MAX_RETRIES
C31_State ==
    /\ \A d \in Slots : \A i \in 1..Len(dev[d].cmds) :
           /\ dev[d].cmds[i].retries <= SCSICMD_MAX_RETRIES
           /\ dev[d].cmds[i].attempts = dev[d].cmds[i].retries + 1
    /\ \A x \in DoneSet(out) :
           /\ x.retries <= SCSICMD_MAX_RETRIES + 1
           /\ x.attempts <= SCSICMD_MAX_RETRIES + 1
           /\ x.retries = SCSICMD_MAX_RETRIES + 1
                 <=> (x.rc = -EIO /\ out.iu.status # 0)

\* a step changes the counter of no command but the one that a failing
\* answer names by its tag, which it raises by one: an answer with status
\* GOOD, and an answer to another command, leave it alone
C31_Step ==
    \A d \in Slots :
        \A c \in DOMAIN Retries(dev, d) \cap DOMAIN Retries(dev', d) :
            Retries(dev', d)[c] # Retries(dev, d)[c] =>
                /\ out'.act = "Deliver" /\ out'.iu.type = "RSP"
                /\ out'.iu.status # 0
                /\ TagOwner(d, out'.iu.tag) = c
                /\ Retries(dev', d)[c] = Retries(dev, d)[c] + 1

C31_Counter == []C31_State /\ [][C31_Step]_vars

\* the eleventh failing answer to one of two outstanding commands has
\* completed it with a counter of 11, the other command's counter being 0
C31_Witness ==
    /\ RspHandled /\ out.iu.status # 0
    /\ Len(out.done) = 1 /\ out.done[1].rc = -EIO
    /\ out.done[1].retries = SCSICMD_MAX_RETRIES + 1
    /\ \E d \in Slots : /\ Len(dev[d].cmds) = 1
                         /\ dev[d].cmds[1].retries = 0

\* two outstanding commands with different counters
C31_PerCommand ==
    \E d \in Slots : /\ Len(dev[d].cmds) = 2
                     /\ dev[d].cmds[1].retries # dev[d].cmds[2].retries
                     /\ dev[d].cmds[2].retries > 0

\* the call of this step is handled by the drive registered under dl
DispatchedTo(dl) ==
    /\ out'.remap = << >> /\ out'.status # << >>
    /\ out'.regs # << >> /\ out'.regs[1].of
    /\ out'.d # 0 /\ drv[out'.d].drive = dl

\* C32: a call whose drive number is the assigned number of a registered
\* drive is dispatched to that drive, and a call is remapped only when no
\* registered drive has its number as assigned number.
C32_Step ==
    out'.act = "Int13Call" =>
        /\ (\E i \in 1..Len(int13s) : RegisteredDrives[i] = out'.req[1])
              => DispatchedTo(out'.req[1])
        /\ out'.remap # << >> => NaturalOnly(out'.req[1])

C32_AssignedFirst == [][C32_Step]_vars

\* positions of the list before which no drive has dl as its natural number
\* without having it as its assigned number
Unshadowed(dl) ==
    {i \in 1..Len(int13s) :
        \A j \in 1..(i - 1) :
            NaturalDrives[j] = dl => RegisteredDrives[j] = dl}

\* C32, as the code does it: the list is searched once, head first, and the
\* first drive that has dl as its assigned or as its natural number decides
C32_ListOrderStep ==
    out'.act = "Int13Call" =>
        /\ (\E i \in Unshadowed(out'.req[1]) : RegisteredDrives[i] = out'.req[1])
              => DispatchedTo(out'.req[1])
        /\ out'.remap # << >> =>
              \E i \in 1..Len(int13s) :
                  /\ NaturalDrives[i] = out'.req[1]
                  /\ RegisteredDrives[i] # out'.req[1]
                  /\ \A j \in 1..(i - 1) : RegisteredDrives[j] # out'.req[1]

C32_ListOrder == [][C32_ListOrderStep]_vars

\* drive 0x80 is registered, and a call for 0x80 has been remapped to 0x81,
\* the drive registered after it with natural number 0x80
C32_Shadowed ==
    /\ out.act = "Int13Call" /\ out.req = << 128 >> /\ out.remap = << 129 >>
    /\ out.status = << >>
    /\ Len(int13s) = 2
    /\ RegisteredDrives = << 129, 128 >> /\ NaturalDrives[1] = 128

\* a call for 0x80 has been dispatched to the drive registered as 0x80
\* while another drive is registered
C32_Dispatched ==
    /\ out.act = "Int13Call" /\ out.req = << 128 >> /\ out.status # << >>
    /\ Len(int13s) = 2 /\ out.d # 0 /\ drv[out.d].drive = 128

\* C33: no SRP command is freed while its close handler still uses it:
\* srpcmd_close() never goes on after the last reference to the command
\* has been dropped.
C33_NoUseAfterFree == out.freed = << >>

\* a command issued before the login was refused with -EBUSY, and the close
\* of its SRP command on the way out ran on after the command was freed
C33_Witness ==
    /\ out.act = "ClientCommand" /\ out.rc = -EBUSY
    /\ Len(out.freed) = 1 /\ out.freed[1].rc = -EBUSY
    /\ out.sent = << >>

\* the same after a failed transmission, with the heap damaged
C33_Fault ==
    /\ out.env = "send_fail" /\ out.freed # << >> /\ pc = "fault"

\* a response, and the close of the session, have closed an SRP command
\* under a reference of their own
C33_Held ==
    /\ out.act \in {"Deliver", "SocketClose"} /\ out.done # << >>
    /\ out.freed = << >>

\* a drive whose block device is closed has a latched error, and a run on
\* a drive with a latched error does not wait
C34_State ==
    /\ \A i \in 1..Len(int13s) :
           ~dev[int13s[i]].block => drv[int13s[i]].block_rc # 0
    /\ (out.act = "SocketClose" /\ out.closes # << >> /\ out.d \in Slots
        /\ \E i \in 1..Len(int13s) : int13s[i] = out.d)
           => drv[out.d].block_rc = (IF out.closes[1].rc = 0 THEN -ENOTCONN
                                     ELSE out.closes[1].rc)
    /\ (pc = "start" /\ drv[command.int13].block_rc # 0)
           => ~Int13StartWaiting(World("", "ok")) /\ ~CanStep

\* a run on a drive with a latched error ends at once with that error and
\* issues nothing; the call returns the status of that error; and a latched
\* error is cleared by nothing but a reset whose open succeeds
C34_Step ==
    /\ (pc = "start" /\ drv[command.int13].block_rc # 0) =>
           /\ out'.act = "StartDone" /\ out'.run = "ended"
           /\ out'.rc = drv[command.int13].block_rc
           /\ out'.sent = << >> /\ out'.issue = << >>
           /\ drv' = drv
    /\ \A d \in Slots :
           (drv[d].block_rc # 0 /\ drv'[d].block_rc = 0 /\ drv'[d].used) =>
               /\ out'.act = "Int13Call" /\ call'.func = INT13_RESET
               /\ dev'[d].block
    /\ \A d \in Slots :
           (drv[d].block_rc # 0 /\ out'.act = "Int13Call" /\ out'.d = d
            /\ call'.func \in {INT13_READ_SECTORS, INT13_WRITE_SECTORS}) =>
               /\ pc' = "start" /\ command'.int13 = d
               /\ drv'[d].block_rc = drv[d].block_rc
               /\ out'.sent = << >>

\* C34: once the block device of a drive has closed the drive has a latched
\* error (-ENOTCONN for a close with reason 0); every read, write or
\* capacity run on it ends with that error without waiting and without a
\* command; a reset that reopens the device clears the error.
C34_Latched == []C34_State /\ [][C34_Step]_vars

\* a read of a drive whose session was closed with reason 0 has returned
\* at once with -ENOTCONN
C34_Witness ==
    /\ out.act = "StartDone" /\ out.run = "ended" /\ out.rc = -ENOTCONN
    /\ call.func = INT13_READ_SECTORS
    /\ drv[1].block_rc = -ENOTCONN /\ ~dev[1].block

\* a reset has cleared the latched error and a read after it has been sent
C34_Cleared ==
    /\ ncalls = MaxLatchCalls /\ call.func = INT13_READ_SECTORS
    /\ out.act = "StartDone" /\ out.sent # << >>
    /\ drv[1].block_rc = 0 /\ dev[1].block

\* the SCSI command of device d with identity c
CmdById(devs, d, c) ==
    devs[d].cmds[FirstOf({i \in 1..Len(devs[d].cmds) : devs[d].cmds[i].id = c})]

\* 1 for a command that has changed to the (16) form
Switched(x) == IF x.use16 THEN 1 ELSE 0

\* an outstanding command has been issued once, once more for each retry
\* and once more for the change of form; a completed command has been
\* issued again for a failing answer at most SCSICMD_MAX_RETRIES times,
\* whichever forms it went through
C35_State ==
    /\ \A d \in Slots : \A i \in 1..Len(dev[d].cmds) :
           /\ dev[d].cmds[i].attempts
                 = dev[d].cmds[i].retries + 1 + Switched(dev[d].cmds[i])
           /\ dev[d].cmds[i].retries <= SCSICMD_MAX_RETRIES
    /\ \A x \in DoneSet(out) :
           /\ x.attempts <= x.retries + 1 + Switched(x)
           /\ x.attempts - 1 - Switched(x) <= SCSICMD_MAX_RETRIES
           /\ x.attempts <= SCSICMD_MAX_RETRIES + 2

\* the step in which a command changes to the (16) form leaves its retry
\* counter as it was, is the handling of an answer with status GOOD, and
\* sends READ CAPACITY (16) once
C35_Step ==
    \A d \in Slots :
        \A c \in DOMAIN Retries(dev, d) \cap DOMAIN Retries(dev', d) :
            (~CmdById(dev, d, c).use16 /\ CmdById(dev', d, c).use16) =>
                /\ Retries(dev', d)[c] = Retries(dev, d)[c]
                /\ CmdById(dev', d, c).attempts = CmdById(dev, d, c).attempts + 1
                /\ out'.act = "Deliver" /\ out'.iu.status = 0
                /\ Len(out'.sent) = 1
                /\ out'.sent[1].cdb.op = "READ_CAPACITY" /\ out'.sent[1].cdb.form = 16

\* C35: the change from READ CAPACITY (10) to READ CAPACITY (16) neither
\* resets the retry counter nor counts as a retry: one capacity command is
\* issued again after a failure at most SCSICMD_MAX_RETRIES times over
\* both forms.
C35_BudgetKept == []C35_State /\ [][C35_Step]_vars

\* a capacity command that changed form has been completed with -EIO by
\* its eleventh failing answer, after twelve issues
C35_Witness ==
    /\ RspHandled /\ out.iu.status # 0
    /\ Len(out.done) = 1 /\ out.done[1].rc = -EIO
    /\ out.done[1].type = "READ_CAPACITY" /\ out.done[1].use16
    /\ out.done[1].retries = SCSICMD_MAX_RETRIES + 1
    /\ out.done[1].attempts = SCSICMD_MAX_RETRIES + 2

\* a command with retries behind it has changed form
C35_Changed ==
    \E d \in Slots : \E i \in 1..Len(dev[d].cmds) :
        /\ dev[d].cmds[i].use16 /\ dev[d].cmds[i].retries > 0
        /\ out.act = "Deliver" /\ out.iu.status = 0

\* C36: a registered drive of 512-byte blocks has a geometry with heads *
\* sectors_per_track other than 0, whatever partition table block 0 holds.
C36_NonZero ==
    \A i \in 1..Len(int13s) :
        drv[int13s[i]].capacity.blksize = INT13_BLKSIZE
           => drv[int13s[i]].heads * drv[int13s[i]].sectors_per_track # 0

\* a drive of 512-byte blocks has been registered with 0 sectors per track,
\* from a table whose used entry ends at sector 0
C36_Witness ==
    /\ out.hook # << >> /\ out.hook[1] >= 0 /\ out.parts # << >>
    /\ out.parts[1][1].type # 0 /\ out.parts[1][1].chs_end[2] % 64 = 0
    /\ Hooked.capacity.blksize = INT13_BLKSIZE
    /\ Hooked.heads = 1 /\ Hooked.sectors_per_track = 0

\* the same table has ended the program in the division
C36_Trap ==
    /\ pc = "fault" /\ "blocks_per_cyl != 0" \in failed
    /\ int13s = << >>

\* the geometry of every drive registered from a table without such an
\* entry has heads * sectors_per_track other than 0
C36_NonZeroUnlessSectorZero ==
    (/\ out.hook # << >> /\ out.hook[1] >= 0 /\ out.parts # << >>
     /\ \A k \in 1..4 : out.parts[1][k].type # 0
                            => out.parts[1][k].chs_end[2] % 64 # 0)
       => Hooked.heads * Hooked.sectors_per_track # 0

\* C37: the geometry of every registered drive has at most 1024 cylinders,
\* at most 255 heads and at most 63 sectors per track, for every capacity and
\* partition table.
C37_Bounds ==
    \A i \in 1..Len(int13s) :
        /\ drv[int13s[i]].cylinders <= 1024
        /\ drv[int13s[i]].heads <= 255
        /\ drv[int13s[i]].sectors_per_track <= 63

\* a drive has been registered with 256 heads, from a table whose used entry
\* ends at head 255
C37_Witness ==
    /\ out.hook # << >> /\ out.hook[1] >= 0 /\ out.parts # << >>
    /\ \E k \in 1..4 : /\ out.parts[1][k].type # 0
                        /\ out.parts[1][k].chs_end[1] = 255
    /\ Hooked.heads = 256 /\ Hooked.sectors_per_track = 63
    /\ Hooked.cylinders <= 1024

\* what the fields of a registered drive do satisfy: no geometry on a drive
\* of another block size, and up to 256 heads on one of 512-byte blocks
C37_Within ==
    \A i \in 1..Len(int13s) :
        IF drv[int13s[i]].capacity.blksize # INT13_BLKSIZE
        THEN Geometry(drv[int13s[i]]) = << 0, 0, 0 >>
        ELSE /\ drv[int13s[i]].cylinders \in 0..1024
             /\ drv[int13s[i]].heads \in 1..256
             /\ drv[int13s[i]].sectors_per_track \in 0..63

\* a drive of more than 1024 * heads * sectors_per_track blocks has been
\* registered with 1024 cylinders
C37_Capped ==
    /\ out.hook # << >> /\ out.hook[1] >= 0
    /\ Hooked.heads * Hooked.sectors_per_track # 0
    /\ Hooked.cylinders = 1024
    /\ Cylinders(Hooked.capacity.blocks, Hooked.heads * Hooked.sectors_per_track)
           = 1024

\* SCSI commands and SRP commands outstanding on any device
AllOutstanding ==
    UNION {{<< "scsi", d, dev[d].cmds[i].id >> : i \in 1..Len(dev[d].cmds)}
           \cup {<< "srp", d, dev[d].commands[i].tag >> :
                     i \in 1..Len(dev[d].commands)} : d \in Slots}

\* outside a run nothing is outstanding, and an outstanding SRP command
\* belongs to an outstanding SCSI command or to none
C38_State ==
    /\ ~RunWaiting => AllOutstanding = {}
    /\ \A d \in Slots : \A i \in 1..Len(dev[d].commands) :
           dev[d].commands[i].scsi # 0
              => dev[d].commands[i].scsi \in Outstanding(d)

\* a command of the pump is completed only in a run, and it is the command
\* that run has issued; a response handled after a run has ended, that is
\* in a later run, is not matched to a command of the ended run
C38_Step ==
    /\ \A x \in DoneSet(out') :
           x.owner = "pump" => /\ RunWaiting
                               /\ command.cmd = x.id \/ out'.act = "StartDone"
    /\ (out'.act = "Deliver" /\ out'.iu.type = "RSP"
           /\ SrpFindTag(dev[out'.d].commands, out'.iu.tag) = 0)
          => \/ out'.done = << >>
             \/ /\ out'.closes # << >>
                /\ \A x \in DoneSet(out') : x.rc = out'.closes[1].rc

\* C38: when a run of the pump has ended, with success, with an error or by
\* its timeout, no SCSI command and no SRP command is outstanding on any
\* device, so that a response handled later is matched to no command of it.
C38_NoneOutstanding == []C38_State /\ [][C38_Step]_vars

\* the timer has expired with a command outstanding: the command has left
\* both lists in that step
C38_Witness ==
    /\ out.act = "TimerExpired"
    /\ out.outcome = << -ETIMEDOUT >>
    /\ \E x \in DoneSet(out) : x.rc = -ETIMEDOUT
    /\ AllOutstanding = {}
    /\ pc = "wait"

\* a response to the READ CAPACITY of the first run of int13_hook() is
\* handled in its second run, whose READ of block 0 has been issued once:
\* the tag is unknown and the session is closed
C38_Late ==
    /\ out.act = "Deliver" /\ out.iu.type = "RSP"
    /\ ncalls = 1
    /\ out.iu.tag >= 2 /\ out.iu.tag < tag_idx
    /\ out.closes # << >> /\ out.closes[1].rc = -ENOENT
    /\ \E x \in DoneSet(out) :
           x.type = "READ" /\ x.attempts = 1 /\ x.rc = -ENOENT
    /\ \A d \in Slots : \A i \in 1..Len(dev[d].commands) :
           dev[d].commands[i].tag # out.iu.tag

\* SRP commands of session d plugged into SCSI command c
SrpOf(devs, d, c) ==
    {i \in 1..Len(devs[d].commands) : devs[d].commands[i].scsi = c}

\* a SCSI command has at most one SRP command, which carries its tag
C39_State ==
    \A d \in Slots : \A i \in 1..Len(dev[d].cmds) :
        /\ Cardinality(SrpOf(dev, d, dev[d].cmds[i].id)) <= 1
        /\ \A k \in SrpOf(dev, d, dev[d].cmds[i].id) :
               dev[d].commands[k].tag = dev[d].cmds[i].tag

\* SCSI command c of device d, outstanding before the step, has been issued
\* again in it and is outstanding after it
Reissued(d, c) ==
    /\ c \in Outstanding(d)
    /\ CmdById(dev, d, c).attempts >= 1
    /\ \E j \in 1..Len(dev'[d].cmds) :
           /\ dev'[d].cmds[j].id = c
           /\ dev'[d].cmds[j].attempts = CmdById(dev, d, c).attempts + 1

\* tags between the counter and tag t, t included, going up modulo TagSpace
TagDistance(idx, t) == IF t = idx THEN TagSpace ELSE (t - idx + TagSpace) % TagSpace

\* when a command is issued again its new tag is the one srp_new_tag()
\* finds with the previous SRP command off the list, the previous tag is
\* listed no longer unless it is the new one, and the new tag is the
\* previous one only if the counter has gone round
C39_Step ==
    \A d \in Slots : \A c \in 1..MaxTagCmds :
        Reissued(d, c) =>
            LET old == CmdById(dev, d, c).tag
                new == CmdById(dev', d, c).tag
                rest == SelectSeq(dev[d].commands, LAMBDA x : x.tag # old)
            IN /\ new = SrpNewTag(rest, tag_idx).tag
               /\ SrpOf(dev', d, c) # {}
               /\ new # old => SrpFindTag(dev'[d].commands, old) = 0
               /\ new = old => TagDistance(tag_idx, old) <= Len(rest) + 1

\* the new tag is not the previous one
C39_Differs ==
    \A d \in Slots : \A c \in 1..MaxTagCmds :
        Reissued(d, c) => CmdById(dev', d, c).tag # CmdById(dev, d, c).tag

\* C39: a SCSI command has at most one SRP command outstanding at any time,
\* and when it is issued again (a retry, the change of READ CAPACITY to its
\* (16) form) the new SRP command has another tag than the previous one.
C39_OneDistinct == []C39_State /\ [][C39_Step /\ C39_Differs]_vars

\* the same, the new tag being the previous one only when the counter has
\* gone round between the two attempts
C39_OneNext == []C39_State /\ [][C39_Step]_vars

\* a command has been issued again under a new tag after a failing
\* response, and its previous tag is listed no longer
C39_Witness ==
    /\ out.act = "Deliver" /\ out.iu.type = "RSP" /\ out.iu.status # 0
    /\ \E d \in Slots : \E i \in 1..Len(dev[d].cmds) :
           /\ dev[d].cmds[i].retries = 1 /\ dev[d].cmds[i].attempts = 2
           /\ dev[d].cmds[i].tag # out.iu.tag
           /\ SrpFindTag(dev[d].commands, out.iu.tag) = 0
           /\ Cardinality(SrpOf(dev, d, dev[d].cmds[i].id)) = 1

\* a command has been issued again under the tag of its previous attempt
C39_SameTag ==
    /\ out.act = "Deliver" /\ out.iu.type = "RSP" /\ out.iu.status # 0
    /\ \E d \in Slots : \E i \in 1..Len(dev[d].cmds) :
           /\ dev[d].cmds[i].retries = 1 /\ dev[d].cmds[i].attempts = 2
           /\ dev[d].cmds[i].tag = out.iu.tag

\* the outcome of the run in progress has been fixed
OutcomeFixed == RunWaiting /\ command.rc # -EINPROGRESS

\* int13_command_close() runs at most once in the handling of one event;
\* the outcome leaves -EINPROGRESS only through it; once fixed it is not
\* changed, by any event, before the run has returned it to its caller
C40_Step ==
    /\ Len(out'.outcome) <= 1
    /\ (RunWaiting /\ command.rc = -EINPROGRESS /\ command.rc' # -EINPROGRESS)
          => out'.outcome = << command.rc' >>
    /\ OutcomeFixed
          => /\ out'.outcome = << >>
             /\ command.rc' = command.rc
             /\ out'.run = "ended" => out'.rc = command.rc
             /\ out'.run # "started"

\* C40: within one run of the pump the outcome leaves -EINPROGRESS at most
\* once: the first of timer expiry, command completion and device close to
\* be handled fixes it, and no event handled later, in the same call of
\* step() or in a later one, changes it.
C40_FixedOnce == [][C40_Step]_vars

\* the timer has expired, and a response has been handled after it in the
\* same call of step(): the outcome is still -ETIMEDOUT
C40_Witness ==
    /\ pc = "wait" /\ command.rc = -ETIMEDOUT
    /\ out.act = "Deliver" /\ out.iu.type = "RSP" /\ out.iu.tag >= 2
    /\ out.outcome = << >>
    /\ out.closes # << >>

\* the command has completed, and the session has been closed after it in
\* the same call of step(): the outcome is still 0
C40_CloseAfter ==
    /\ pc = "wait" /\ command.rc = 0
    /\ out.act = "SocketClose" /\ out.closes # << >>
    /\ out.outcome = << >>
    /\ \E d \in Slots : drv[d].used /\ drv[d].block_rc # 0

====
